---- MODULE Spec2Model ----
(***************************************************************************)
(* Model of the inline HTML editor server (app.js): the tag-region text    *)
(* engine (injectLineNumbers, findClosingTagLocation,                      *)
(* removeEditorAttributes, replaceSingleLine) and the diff-chain backup    *)
(* store with the session undo history (POST /save, /save-multiline,       *)
(* /save-source, /restore, /undo, reconstructContent).                     *)
(*                                                                         *)
(* A JavaScript string is a sequence of one-character strings; indices and *)
(* offsets are 0-based as in the source, -1 meaning "not found".  A file   *)
(* is one such string; the handlers split it at "\n" and join it again.    *)
(***************************************************************************)
EXTENDS Integers, Sequences, FiniteSets, TLC

----------------------------------------------------------------------------
(* Characters and JavaScript string primitives *)

NL == "\n"

LowerSeq == <<"a","b","c","d","e","f","g","h","i","j","k","l","m",
              "n","o","p","q","r","s","t","u","v","w","x","y","z">>

UpperSeq == <<"A","B","C","D","E","F","G","H","I","J","K","L","M",
              "N","O","P","Q","R","S","T","U","V","W","X","Y","Z">>

DigitChars == {"0","1","2","3","4","5","6","7","8","9"}

UpperChars == {UpperSeq[i] : i \in 1..26}

LowerChars == {LowerSeq[i] : i \in 1..26}

IsUpper(c) == c \in UpperChars

IsLetter(c) == c \in UpperChars \/ c \in LowerChars

IsAlnum(c) == IsLetter(c) \/ c \in DigitChars

IsWordChar(c) == IsAlnum(c) \/ c = "_"

IsSpace(c) == c \in {" ", "\t", "\n", "\r"}

LowerOf == [c \in UpperChars |-> LowerSeq[CHOOSE i \in 1..26 : UpperSeq[i] = c]]

ToLower(c) == IF IsUpper(c) THEN LowerOf[c] ELSE c

Min(S) == CHOOSE x \in S : \A y \in S : x <= y

Max(S) == CHOOSE x \in S : \A y \in S : x >= y

CharAt(s, i) == s[i + 1]

\* s.substring(a, b): negative arguments count as 0, arguments beyond the
\* length as the length, and the two are swapped when a > b.
Substring(s, a, b) ==
    LET ca == IF a < 0 THEN 0 ELSE IF a > Len(s) THEN Len(s) ELSE a
        cb == IF b < 0 THEN 0 ELSE IF b > Len(s) THEN Len(s) ELSE b
        lo == IF ca <= cb THEN ca ELSE cb
        hi == IF ca <= cb THEN cb ELSE ca
    IN  SubSeq(s, lo + 1, hi)

SubstringFrom(s, a) == Substring(s, a, Len(s))

StartsWithAt(s, i, pat) ==
    /\ i >= 0
    /\ i + Len(pat) <= Len(s)
    /\ \A k \in 1..Len(pat) : s[i + k] = pat[k]

StartsWithAtCI(s, i, pat) ==
    /\ i >= 0
    /\ i + Len(pat) <= Len(s)
    /\ \A k \in 1..Len(pat) : ToLower(s[i + k]) = ToLower(pat[k])

IndexOfFrom(s, pat, from) ==
    LET S == {i \in from..(Len(s) - Len(pat)) : StartsWithAt(s, i, pat)}
    IN  IF S = {} THEN -1 ELSE Min(S)

IndexOf(s, pat) == IndexOfFrom(s, pat, 0)

LastIndexOf(s, pat) ==
    LET S == {i \in 0..(Len(s) - Len(pat)) : StartsWithAt(s, i, pat)}
    IN  IF S = {} THEN -1 ELSE Max(S)

IndexOfCI(s, pat) ==
    LET S == {i \in 0..(Len(s) - Len(pat)) : StartsWithAtCI(s, i, pat)}
    IN  IF S = {} THEN -1 ELSE Min(S)

\* content.split('\n'): always at least one line, "" for the empty string
RECURSIVE SplitFrom(_, _, _)
SplitFrom(s, i, cur) ==
    IF i > Len(s) THEN <<cur>>
    ELSE IF s[i] = NL THEN <<cur>> \o SplitFrom(s, i + 1, <<>>)
    ELSE SplitFrom(s, i + 1, Append(cur, s[i]))

Split(s) == SplitFrom(s, 1, <<>>)

\* lines.join('\n')
RECURSIVE Join(_)
Join(ls) ==
    IF Len(ls) = 0 THEN <<>>
    ELSE IF Len(ls) = 1 THEN ls[1]
    ELSE ls[1] \o <<NL>> \o Join(Tail(ls))

\* lines.splice(start, deleteCount, ...items) on a copy, with the clamping
\* Array.prototype.splice applies to its arguments
Splice(ls, start, deleteCount, items) ==
    LET st == IF start > Len(ls) THEN Len(ls) ELSE start
        dc == IF deleteCount < 0 THEN 0
              ELSE IF deleteCount > Len(ls) - st THEN Len(ls) - st
              ELSE deleteCount
    IN  SubSeq(ls, 1, st) \o items \o SubSeq(ls, st + dc + 1, Len(ls))

\* lines.slice(a, b) for 0 <= a
Slice(ls, a, b) == SubSeq(ls, a + 1, IF b > Len(ls) THEN Len(ls) ELSE b)

----------------------------------------------------------------------------
(* The tag-region text engine *)

\* line.match(/<([a-zA-Z][a-zA-Z0-9]*)/): index -1 when there is no match
TagMatch(line) ==
    LET S == {i \in 0..(Len(line) - 2) :
                 CharAt(line, i) = "<" /\ IsLetter(CharAt(line, i + 1))}
    IN  IF S = {} THEN [index |-> -1, name |-> <<>>]
        ELSE LET p == Min(S)
                 e == Max({j \in (p + 2)..Len(line) :
                             \A k \in (p + 1)..(j - 1) : IsAlnum(CharAt(line, k))})
             IN  [index |-> p, name |-> Substring(line, p + 1, e)]

\* /<\/?tagName\b/gi matching at offset i
TagRegexAt(line, i, tagName) ==
    /\ i < Len(line)
    /\ CharAt(line, i) = "<"
    /\ LET j == IF i + 1 < Len(line) /\ CharAt(line, i + 1) = "/" THEN i + 2 ELSE i + 1
       IN  /\ StartsWithAtCI(line, j, tagName)
           /\ \/ j + Len(tagName) >= Len(line)
              \/ ~IsWordChar(CharAt(line, j + Len(tagName)))

IsClosingAt(line, i) == i + 1 < Len(line) /\ CharAt(line, i + 1) = "/"

RECURSIVE ScanLineFirstClose(_, _, _, _)
ScanLineFirstClose(line, i, depth, tagName) ==
    IF i >= Len(line) THEN [index |-> -1, depth |-> depth]
    ELSE IF TagRegexAt(line, i, tagName) /\ IsClosingAt(line, i)
         THEN [index |-> i, depth |-> 0]
         ELSE ScanLineFirstClose(line, i + 1, depth, tagName)

\* the inner while loop of findClosingTagLocation over one line, from
\* regex.lastIndex = i with the depth counter as given
RECURSIVE ScanLine(_, _, _, _)
ScanLine(line, i, depth, tagName) ==
    IF i >= Len(line) THEN [index |-> -1, depth |-> depth]
    ELSE IF TagRegexAt(line, i, tagName)
         THEN IF IsClosingAt(line, i)
              THEN IF depth - 1 = 0
                   THEN [index |-> i, depth |-> 0]
                   ELSE ScanLine(line, i + 1, depth - 1, tagName)
              ELSE ScanLine(line, i + 1, depth + 1, tagName)
         ELSE ScanLine(line, i + 1, depth, tagName)

RECURSIVE ScanLines(_, _, _, _, _)
ScanLines(lines, currentLineIndex, from, depth, tagName) ==
    IF currentLineIndex >= Len(lines) THEN [lineIndex |-> -1, index |-> -1]
    ELSE LET r == ScanLine(lines[currentLineIndex + 1], from, depth, tagName)
         IN  IF r.index # -1
             THEN [lineIndex |-> currentLineIndex, index |-> r.index]
             ELSE ScanLines(lines, currentLineIndex + 1, 0, r.depth, tagName)

\* lineIndex = -1 stands for the null result
findClosingTagLocation(lines, startLineIndex, tagName) ==
    LET scanPos == IndexOf(lines[startLineIndex + 1], <<"<">> \o tagName)
    IN  IF scanPos = -1 THEN [lineIndex |-> -1, index |-> -1]
        ELSE ScanLines(lines, startLineIndex, scanPos, 0, tagName)

Quote == "\""

\* where a match of  attr="[^"]*"  starting at offset j ends, -1 for no match
AttrEndAt(s, j, lit) ==
    IF StartsWithAt(s, j, lit)
    THEN LET q == IndexOfFrom(s, <<Quote>>, j + Len(lit))
         IN  IF q = -1 THEN -1 ELSE q + 1
    ELSE -1

RECURSIVE StripAttrKeepSpace(_, _, _)
StripAttrKeepSpace(s, i, lit) ==
    LET J == {j \in i..(Len(s) - 1) : AttrEndAt(s, j, lit) # -1}
    IN  IF J = {} THEN Substring(s, i, Len(s))
        ELSE Substring(s, i, Min(J))
                 \o StripAttrKeepSpace(s, AttrEndAt(s, Min(J), lit), lit)

\* s.replace(/\s*attr="[^"]*"/g, '') from offset i on: the leftmost match
\* starts at the whitespace run in front of the first attr="..." occurrence
RECURSIVE StripAttr(_, _, _)
StripAttr(s, i, lit) ==
    LET J == {j \in i..(Len(s) - 1) : AttrEndAt(s, j, lit) # -1}
    IN  IF J = {} THEN Substring(s, i, Len(s))
        ELSE LET j0 == Min(J)
                 a  == Min({b \in i..j0 : \A k \in b..(j0 - 1) : IsSpace(CharAt(s, k))})
             IN  Substring(s, i, a) \o StripAttr(s, AttrEndAt(s, j0, lit), lit)

DataLineLit == <<"d","a","t","a","-","l","i","n","e","=",Quote>>

ContentEditableLit ==
    <<"c","o","n","t","e","n","t","e","d","i","t","a","b","l","e","=",Quote>>

removeEditorAttributes(content) ==
    IF Len(content) = 0 THEN content
    ELSE StripAttr(StripAttr(content, 0, DataLineLit), 0, ContentEditableLit)

\* /<(?!br\s*\/?>)[^>]+>/i.test(s)
BrAhead(s, k) ==
    /\ StartsWithAtCI(s, k, <<"b","r">>)
    /\ LET sp == {j \in (k + 2)..Len(s) :
                    \A m \in (k + 2)..(j - 1) : IsSpace(CharAt(s, m))}
           j  == Max(sp)
           j2 == IF j < Len(s) /\ CharAt(s, j) = "/" THEN j + 1 ELSE j
       IN  j2 < Len(s) /\ CharAt(s, j2) = ">"

HasOtherTags(s) ==
    \E i \in 0..(Len(s) - 1) :
        /\ CharAt(s, i) = "<"
        /\ ~BrAhead(s, i + 1)
        /\ i + 1 < Len(s)
        /\ CharAt(s, i + 1) # ">"
        /\ \E j \in (i + 2)..(Len(s) - 1) : CharAt(s, j) = ">"

\* line.match(/^\s*/)[0]
LeadingSpace(line) ==
    Substring(line, 0,
        Max({j \in 0..Len(line) : \A k \in 0..(j - 1) : IsSpace(CharAt(line, k))}))

LowerStr(s) == [i \in 1..Len(s) |-> ToLower(s[i])]

\* the digits of a number, as the template literal `${lineNumber}` prints it
RECURSIVE NumStr(_)
NumStr(n) ==
    LET d == <<"0","1","2","3","4","5","6","7","8","9">>[(n % 10) + 1]
    IN  IF n < 10 THEN <<d>> ELSE Append(NumStr(n \div 10), d)

\* the tags the editor does not mark (lower case)
excludedTags ==
    { <<"h","t","m","l">>, <<"h","e","a","d">>, <<"b","o","d","y">>,
      <<"s","c","r","i","p","t">>, <<"s","t","y","l","e">>,
      <<"m","e","t","a">>, <<"l","i","n","k">>, <<"t","i","t","l","e">>,
      <<"!","d","o","c","t","y","p","e">>, <<"d","i","v">>,
      <<"s","p","a","n">>, <<"u","l">>, <<"o","l">>, <<"d","l">>,
      <<"t","a","b","l","e">>, <<"t","h","e","a","d">>,
      <<"t","b","o","d","y">>, <<"t","f","o","o","t">>, <<"t","r">>,
      <<"c","o","l","g","r","o","u","p">>, <<"c","a","p","t","i","o","n">>,
      <<"s","e","l","e","c","t">>, <<"o","p","t","g","r","o","u","p">>,
      <<"d","a","t","a","l","i","s","t">>,
      <<"f","i","e","l","d","s","e","t">>, <<"f","o","r","m">>,
      <<"n","a","v">>, <<"m","a","i","n">>, <<"s","e","c","t","i","o","n">>,
      <<"a","r","t","i","c","l","e">>, <<"a","s","i","d","e">>,
      <<"h","e","a","d","e","r">>, <<"f","o","o","t","e","r">>,
      <<"f","i","g","u","r","e">>, <<"d","e","t","a","i","l","s">>,
      <<"s","u","m","m","a","r","y">>, <<"b","r">>, <<"h","r">> }

DataLineEq == <<"d","a","t","a","-","l","i","n","e","=">>

\* ` data-line="${lineNumber}"`
MarkerAttr(lineNumber) ==
    <<" ">> \o DataLineLit \o NumStr(lineNumber) \o <<Quote>>

InjectLineNoSkip(line, lineNumber) ==
    LET tagMatch == TagMatch(line)
        tagName  == tagMatch.name
        insertPos == tagMatch.index + 1 + Len(tagName)
    IN  IF tagMatch.index # -1 /\ LowerStr(tagName) \notin excludedTags
        THEN Substring(line, 0, insertPos) \o MarkerAttr(lineNumber)
                 \o SubstringFrom(line, insertPos)
        ELSE line

\* the body of the loop of injectLineNumbers: one line and its number
InjectLine(line, lineNumber) ==
    IF IndexOf(line, DataLineEq) # -1 THEN line
    ELSE LET tagMatch == TagMatch(line)
             tagName  == tagMatch.name
         IN  IF tagMatch.index = -1 THEN line
             ELSE IF LowerStr(tagName) \in excludedTags THEN line
             ELSE LET tagStart  == IndexOf(line, <<"<">> \o tagName)
                      insertPos == tagStart + 1 + Len(tagName)
                      \* line.charAt(...): "" past the end of the line
                      charAfterTag ==
                          IF insertPos < Len(line)
                          THEN <<CharAt(line, insertPos)>> ELSE <<>>
                  IN  IF /\ tagStart # -1
                         /\ charAfterTag \in
                               { <<" ">>, <<">">>, <<"\t">>, <<NL>>, <<>> }
                      THEN Substring(line, 0, insertPos)
                               \o MarkerAttr(lineNumber)
                               \o SubstringFrom(line, insertPos)
                      ELSE line

injectLineNumbers(content) ==
    LET lines == Split(content)
    IN  Join([i \in 1..Len(lines) |-> InjectLine(lines[i], i)])


\* The result object of replaceSingleLine.  originalLine is <<>> for null
\* and <<line>> for a string; isMultiline is FALSE where the source leaves
\* it undefined.
ReplaceNull(lines) ==
    [lines |-> lines, originalLine |-> <<>>, isMultiline |-> FALSE,
     startLineIndex |-> -1, endLineIndex |-> -1]

replaceSingleLine(lines, lineIndex, newContent) ==
    LET line       == lines[lineIndex + 1]
        tagMatch   == TagMatch(line)
        tagName    == tagMatch.name
        openTagEnd == IndexOf(line, <<">">>)
        closeTag   == <<"<", "/">> \o tagName \o <<">">>
        closeAt    == IndexOfCI(line, closeTag)
        cleanedContent == removeEditorAttributes(newContent)
    IN  IF tagMatch.index = -1 THEN ReplaceNull(lines)
        ELSE IF openTagEnd = -1 THEN ReplaceNull(lines)
        ELSE IF closeAt = -1
        THEN LET closingLoc   == findClosingTagLocation(lines, lineIndex, tagName)
                 found        == closingLoc.lineIndex # -1
                 endLineIndex == IF found THEN closingLoc.lineIndex ELSE lineIndex
                 fullContent  == Join(Slice(lines, lineIndex, endLineIndex + 1))
                 contentBetweenTags ==
                     Substring(fullContent,
                               IndexOf(fullContent, <<">">>) + 1,
                               LastIndexOf(fullContent, closeTag))
                 before  == Substring(line, 0, openTagEnd + 1)
                 newLine == LeadingSpace(line) \o before \o cleanedContent \o closeTag
             IN  IF /\ LowerStr(tagName) \in {<<"l","i">>, <<"t","d">>}
                    /\ found
                    /\ ~HasOtherTags(contentBetweenTags)
                 THEN [lines |-> Splice(lines, lineIndex,
                                        endLineIndex - lineIndex + 1, <<newLine>>),
                       originalLine |-> <<line>>, isMultiline |-> FALSE,
                       startLineIndex |-> -1, endLineIndex |-> -1]
                 ELSE [lines |-> lines, originalLine |-> <<>>, isMultiline |-> TRUE,
                       startLineIndex |-> lineIndex, endLineIndex |-> endLineIndex]
        ELSE LET matched       == Substring(line, closeAt, closeAt + Len(closeTag))
                 closeTagIndex == IndexOf(line, matched)
                 before  == Substring(line, 0, openTagEnd + 1)
                 after   == SubstringFrom(line, closeTagIndex)
                 newLine == before \o cleanedContent \o after
             IN  [lines |-> [lines EXCEPT ![lineIndex + 1] = newLine],
                  originalLine |-> <<line>>, isMultiline |-> FALSE,
                  startLineIndex |-> -1, endLineIndex |-> -1]

----------------------------------------------------------------------------
(* Bounds of the model *)

\* requests that write a file, per behaviour
MaxOps == 2

\* the same, for the behaviours made of inline edits alone
MaxInlineOps == 3

\* the same, for one long day of inline edits of a single line
MaxLongOps == 102

\* requests of the behaviours that fill and empty one undo history
MaxPushes == 25

\* requests that write a file, in the behaviours that exercise the text engine
MaxEngineOps == 1

\* calendar days
MaxDay == 2

\* lines of the documents the marker functions are called with
MaxMarkerLines == 2

\* characters of a file path in front of its extension
MaxStemLen == 4

----------------------------------------------------------------------------
(* Inputs *)

Sessions == {"s1"}

FileName == "index.html"

LiOpen == <<"<", "l", "i", ">">>

LiClose == <<"<", "/", "l", "i", ">">>

UlOpen == <<"<", "u", "l", ">">>

UlClose == <<"<", "/", "u", "l", ">">>

\* <li>A</li> / <li>B</li>
DocList == Join(<< LiOpen \o <<"A">> \o LiClose, LiOpen \o <<"B">> \o LiClose >>)

\* a text-only <li> spread over three lines, indented
DocSpread == Join(<< <<" ">> \o LiOpen, <<"A">>, LiClose >>)

\* a list whose <ul> spans lines: a complex multiline region
DocNested == Join(<< UlOpen, LiOpen \o <<"A">> \o LiClose, UlClose >>)

InitDocs == {DocList, DocSpread, DocNested}

\* content of POST /save: plain text, the text already there, text with a
\* line break
SaveContents == { <<"C">>, <<"A">>, <<"C", NL, "D">> }

MultilineContents == { LiOpen \o <<"C">> \o LiClose, <<"C", NL, "D">> }

\* startLine and endLine of POST /save-multiline: one line, two lines, and
\* the ranges the handler refuses (a missing parameter, start after end, an
\* end past the last line)
MultilineRanges == { <<1, 1>>, <<1, 2>>, <<0, 1>>, <<2, 1>>, <<1, 9>> }

SourceContents == {DocList}

\* line_number of POST /save: every line of the file, 0 (which the handler
\* takes for a missing parameter) and the first number past the last line
LineNumbers(content) == 0..(Len(Split(content)) + 1)

----------------------------------------------------------------------------
(* State *)

VARIABLES
    live,       \* content of the file PUBLIC_DIR/index.html
    bk,         \* backup store: day -> the files of that day's folder
    history,    \* req.session.history of each session
    loggedIn,   \* req.session.loggedIn of each session
    today,      \* the calendar day of the server's clock
    ops,        \* number of requests handled so far that wrote a file (in the
                \* login behaviours: of POST /login requests handled); every
                \* such request runs in a millisecond of its own, so ops is
                \* also the timestamp the request puts into file names
    resp,       \* the response to the last request
    call,       \* the last call of the text engine or of the region query
                \* GET /line-info: its arguments and what it returned
    loginAttempts,  \* the Map loginAttempts: ip -> its failure record
    now         \* Date.now(), in milliseconds since the server started

vars == <<live, bk, history, loggedIn, today, ops, resp, call, loginAttempts, now>>

IPs == {"ip1"}

Days == 1..MaxDay

\* A day folder.  first and last hold <<content>> when the file exists and
\* <<>> when it does not; diffs[n] is the record in the file whose name
\* starts with the number n; snaps are the timestamped snapshot files.
EmptyBucket == [first |-> <<>>, last |-> <<>>, diffs |-> <<>>, snaps |-> {}]

BucketExists(b) == b # EmptyBucket

\* fs.writeFileSync of `${timestamp}_${kind}${ext}`: a file of the same name
\* is overwritten
WriteSnap(snaps, ts, kind, content) ==
    {x \in snaps : ~(x.ts = ts /\ x.kind = kind)}
        \cup {[ts |-> ts, kind |-> kind, content |-> content]}

\* region is <<>> unless the response names a region of lines; target is
\* <<>> unless the request named a backup file; req holds the line numbers
\* the request named
Idle == [op |-> "none", session |-> "none", success |-> FALSE,
         outcome |-> "none", backup |-> "none", pre |-> <<>>, region |-> <<>>,
         target |-> <<>>, req |-> <<>>]

Response(op, s, success, outcome, backup, pre) ==
    [op |-> op, session |-> s, success |-> success,
     outcome |-> outcome, backup |-> backup, pre |-> pre, region |-> <<>>,
     target |-> <<>>, req |-> <<>>]

\* the response to a POST /save for line_number
SaveResponse(line_number, s, success, outcome, backup, pre) ==
    [Response("save", s, success, outcome, backup, pre) EXCEPT
        !.req = <<line_number>>]

\* the response to a POST /save-multiline for startLine..endLine
MultilineResponse(startLine, endLine, s, success, outcome, backup, pre) ==
    [Response("save-multiline", s, success, outcome, backup, pre) EXCEPT
        !.req = <<startLine, endLine>>]

\* the backupFile a POST /restore named
WithTarget(r, dateFolder, f) ==
    [r EXCEPT !.target = << [day |-> dateFolder, file |-> f] >>]

WithRegionZeroBased(r, lines, result) ==
    IF result.originalLine = <<>> /\ result.isMultiline
    THEN [r EXCEPT !.region =
             << [startLine |-> result.startLineIndex,
                 endLine   |-> result.endLineIndex,
                 originalContent |->
                     Join(Slice(lines, result.startLineIndex,
                                result.endLineIndex + 1))] >>]
    ELSE r

\* { success: false, isMultiline: true, startLine, endLine, originalContent }
WithRegion(r, lines, result) ==
    IF result.originalLine = <<>> /\ result.isMultiline
    THEN [r EXCEPT !.region =
             << [startLine |-> result.startLineIndex + 1,
                 endLine   |-> result.endLineIndex + 1,
                 originalContent |->
                     Join(Slice(lines, result.startLineIndex,
                                result.endLineIndex + 1))] >>]
    ELSE r

NoCall == [fn |-> "none", lines |-> <<>>, lineIndex |-> 0, arg |-> <<>>, out |-> <<>>]

Watch == [NoCall EXCEPT !.fn = "responses"]

----------------------------------------------------------------------------
(* The version chain *)

\* the largest number String(n).padStart(2, '0') writes with two digits,
\* i.e. the largest n whose file name matches /^\d{2}_diff\.json$/
MaxTwoDigit == 99

\* targetNum = Infinity
Infinity == 1000000

\* the numbers of the files readdirSync(...).filter(/^\d{2}_diff\.json$/) keeps
DiffFileNums(diffs) == {n \in DOMAIN diffs : n <= MaxTwoDigit}

\* .sort() of the file names: the numbers of S between lo and hi, ascending
RECURSIVE SortedRange(_, _, _)
SortedRange(S, lo, hi) ==
    IF lo > hi THEN <<>>
    ELSE IF lo = hi THEN (IF lo \in S THEN <<lo>> ELSE <<>>)
    ELSE LET mid == (lo + hi) \div 2
         IN  SortedRange(S, lo, mid) \o SortedRange(S, mid + 1, hi)

SortedNums(S) == SortedRange(S, 0, MaxTwoDigit)

\* the body of the replay loop for one diff file
ApplyDiff(content, diffData) ==
    IF Len(diffData.after) = 0 THEN content
    ELSE LET lines   == Split(content)
             lineIdx == diffData.lineNumber - 1
         IN  IF lineIdx >= 0 /\ lineIdx < Len(lines)
             THEN Join([lines EXCEPT ![lineIdx + 1] = diffData.after])
             ELSE content

\* for (const diffFile of diffFiles) { if (num > targetNum) break; ... }
\* over the rounds lo..hi of the loop, taken in two halves; the listing is
\* ascending, so leaving the loop at the first num > targetNum and passing
\* over every such num are the same
RECURSIVE ReplayDiffs(_, _, _, _, _, _)
ReplayDiffs(content, diffs, diffFiles, lo, hi, targetNum) ==
    IF lo > hi THEN content
    ELSE IF lo = hi
         THEN IF diffFiles[lo] > targetNum THEN content
              ELSE ApplyDiff(content, diffs[diffFiles[lo]])
    ELSE LET mid  == (lo + hi) \div 2
             left == ReplayDiffs(content, diffs, diffFiles, lo, mid, targetNum)
         IN  \* the test makes the loop variable a value before the next round
             IF Len(left) >= 0
             THEN ReplayDiffs(left, diffs, diffFiles, mid + 1, hi, targetNum)
             ELSE content

\* <<>> stands for null, <<content>> for a string
reconstructContent(b, targetNum) ==
    IF b.first = <<>> THEN <<>>
    ELSE LET diffFiles == SortedNums(DiffFileNums(b.diffs))
         IN  << ReplayDiffs(b.first[1], b.diffs, diffFiles, 1, Len(diffFiles),
                            targetNum) >>

\* nextNum and the write of `${nextNum}_diff.json`
WriteDiff(diffs, diffData) ==
    LET nextNum == Cardinality(DiffFileNums(diffs)) + 1
    IN  IF nextNum \in DOMAIN diffs
        THEN [diffs EXCEPT ![nextNum] = diffData]
        ELSE [n \in (DOMAIN diffs) \cup {nextNum} |->
                 IF n = nextNum THEN diffData ELSE diffs[n]]

----------------------------------------------------------------------------
(* The undo history *)

HistoryLimit == 20

PushHistoryUnbounded(h, entry) == Append(h, entry)

\* if (history.length >= 20) history.shift(); history.push(entry)
PushHistory(h, entry) ==
    Append(IF Len(h) >= HistoryLimit THEN Tail(h) ELSE h, entry)

\* lines[i] = v on an array: an index past the end extends the array, the
\* holes joining as empty strings
SetAt(lines, i, v) ==
    IF i < Len(lines) THEN [lines EXCEPT ![i + 1] = v]
    ELSE lines \o [k \in 1..(i - Len(lines)) |-> <<>>] \o <<v>>

----------------------------------------------------------------------------
(* Requests *)

Init ==
    /\ live \in InitDocs
    /\ bk = [d \in Days |-> EmptyBucket]
    /\ history = [s \in Sessions |-> <<>>]
    /\ loggedIn = [s \in Sessions |-> FALSE]
    /\ today = 1
    /\ ops = 0
    /\ resp = Idle
    /\ call = NoCall
    /\ loginAttempts = [ip \in IPs |-> <<>>]
    /\ now = 0

\* A request the handler rejects before its first write: the response goes
\* out and no file, session or clock changes.  The behaviours that start
\* with call = Watch keep that response in resp, the others pass over it.
Reply(r) ==
    /\ r.success = FALSE
    /\ IF call = Watch THEN resp' = r ELSE UNCHANGED resp
    /\ UNCHANGED <<live, bk, history, loggedIn, today, loginAttempts, now, ops, call>>

\* POST /login with the right password
Login(s) ==
    /\ ~loggedIn[s]
    /\ loggedIn' = [loggedIn EXCEPT ![s] = TRUE]
    /\ UNCHANGED <<live, bk, history, today, loginAttempts, now, ops, resp>>

LogoutKeepsHistory(s) ==
    /\ loggedIn[s]
    /\ loggedIn' = [loggedIn EXCEPT ![s] = FALSE]
    /\ resp' = Idle
    /\ UNCHANGED <<live, bk, history, today, loginAttempts, now, ops>>

\* GET /logout: req.session.destroy()
Logout(s) ==
    /\ loggedIn[s]
    /\ loggedIn' = [loggedIn EXCEPT ![s] = FALSE]
    /\ history' = [history EXCEPT ![s] = <<>>]
    /\ resp' = Idle
    /\ UNCHANGED <<live, bk, today, loginAttempts, now, ops>>

\* the entry POST /save pushes
SingleEntry(lineIndex, originalLine) ==
    [filename |-> FileName, isMultiline |-> FALSE, lineIndex |-> lineIndex,
     endLineIndex |-> lineIndex, originalLines |-> <<originalLine>>,
     newLineCount |-> 1]

\* the entry POST /save-multiline pushes
MultiEntry(startIdx, endIdx, originalLines, newLineCount) ==
    [filename |-> FileName, isMultiline |-> TRUE, lineIndex |-> startIdx,
     endLineIndex |-> endIdx, originalLines |-> originalLines,
     newLineCount |-> newLineCount]

\* fs.writeFileSync(lastBackupPath, newContent): the latest-content copy
RefreshLastSkipped(b, content) == b

RefreshLast(b, content) == [b EXCEPT !.last = <<content>>]

IntegrityCheckLoose(b, fileContent) == reconstructContent(b, Infinity) # <<>>

\* the integrity check of POST /save
IntegrityCheck(b, fileContent) ==
    LET expectedContent == reconstructContent(b, Infinity)
    IN  /\ expectedContent # <<>>
        /\ Len(expectedContent[1]) > 0
        /\ expectedContent[1] = fileContent

SaveBackupRewritesFirst(b, fileContent, lines, lineIndex, line_number, tempResult, ts) ==
    [b EXCEPT !.first = <<fileContent>>, !.last = <<fileContent>>]

\* the backup branch of POST /save for an edit the pre-check lets through
SaveBackup(b, fileContent, lines, lineIndex, line_number, tempResult, ts) ==
    IF b.first = <<>>
    THEN [b EXCEPT !.first = <<fileContent>>, !.last = <<fileContent>>]
    ELSE IF IntegrityCheck(b, fileContent)
    THEN [b EXCEPT !.diffs =
             WriteDiff(b.diffs, [timestamp  |-> ts,
                                 lineNumber |-> line_number,
                                 before     |-> lines[lineIndex + 1],
                                 after      |-> tempResult.lines[lineIndex + 1]])]
    ELSE [b EXCEPT !.snaps = WriteSnap(b.snaps, ts, "auto-snapshot", fileContent)]

SaveBackupKind(b, fileContent) ==
    IF b.first = <<>> THEN "first"
    ELSE IF IntegrityCheck(b, fileContent) THEN "diff" ELSE "snapshot"

ReplaceOutcome(result) ==
    IF result.originalLine # <<>> THEN "replaced"
    ELSE IF result.isMultiline THEN "isMultiline" ELSE "notEditable"

\* POST /save
Save(s, line_number, content) ==
    LET fileContent == live
        lines       == Split(fileContent)
        lineIndex   == line_number - 1
        b           == bk[today]
        sanitized   == removeEditorAttributes(content)
        tempResult  == replaceSingleLine(lines, lineIndex, sanitized)
        result      == replaceSingleLine(lines, lineIndex, sanitized)
        newContent  == Join(result.lines)
        b1          == SaveBackup(b, fileContent, lines, lineIndex, line_number,
                                  tempResult, ops)
    IN  IF ~loggedIn[s]
        THEN Reply(SaveResponse(line_number, s, FALSE, "login", "none", live))
        ELSE IF line_number = 0
        THEN Reply(SaveResponse(line_number, s, FALSE, "missing", "none", live))
        ELSE IF lineIndex < 0 \/ lineIndex >= Len(lines)
        THEN Reply(SaveResponse(line_number, s, FALSE, "invalidLine", "none", live))
        ELSE IF b.first # <<>> /\ tempResult.originalLine = <<>>
        THEN Reply(WithRegion(SaveResponse(line_number, s, FALSE, ReplaceOutcome(tempResult),
                                       "none", live),
                              lines, tempResult))
        ELSE IF result.originalLine = <<>>
        THEN /\ bk' = [bk EXCEPT ![today] = b1]
             /\ ops' = ops + 1
             /\ resp' = WithRegion(SaveResponse(line_number, s, FALSE, ReplaceOutcome(result),
                                            SaveBackupKind(b, fileContent), live),
                                   lines, result)
             /\ UNCHANGED <<live, history, loggedIn, today, loginAttempts, now>>
        ELSE /\ history' = [history EXCEPT ![s] =
                              PushHistory(@, SingleEntry(lineIndex, result.originalLine[1]))]
             /\ live' = newContent
             /\ bk' = [bk EXCEPT ![today] = RefreshLast(b1, newContent)]
             /\ ops' = ops + 1
             /\ resp' = SaveResponse(line_number, s, TRUE,
                                 IF Len(result.lines) = Len(lines)
                                 THEN "replaced" ELSE "promoted",
                                 SaveBackupKind(b, fileContent), live)
             /\ UNCHANGED <<loggedIn, today, loginAttempts, now>>

\* POST /save when fs.writeFileSync(filePath, newContent) throws: the backup
\* branch and the push onto the history have run, the catch block answers
\* 500, the live file and the latest copy are not written
SaveWriteFails(s, line_number, content) ==
    LET fileContent == live
        lines       == Split(fileContent)
        lineIndex   == line_number - 1
        b           == bk[today]
        sanitized   == removeEditorAttributes(content)
        tempResult  == replaceSingleLine(lines, lineIndex, sanitized)
        result      == replaceSingleLine(lines, lineIndex, sanitized)
        b1          == SaveBackup(b, fileContent, lines, lineIndex, line_number,
                                  tempResult, ops)
    IN  /\ loggedIn[s]
        /\ line_number # 0
        /\ lineIndex >= 0 /\ lineIndex < Len(lines)
        /\ result.originalLine # <<>>
        /\ history' = [history EXCEPT ![s] =
                          PushHistory(@, SingleEntry(lineIndex, result.originalLine[1]))]
        /\ bk' = [bk EXCEPT ![today] = b1]
        /\ ops' = ops + 1
        /\ resp' = SaveResponse(line_number, s, FALSE, "writeError",
                            SaveBackupKind(b, fileContent), live)
        /\ UNCHANGED <<live, loggedIn, today, loginAttempts, now>>

\* POST /save-multiline
SaveMultiline(s, startLine, endLine, content) ==
    LET fileContent == live
        lines       == Split(fileContent)
        startIdx    == startLine - 1
        endIdx      == endLine - 1
        b           == bk[today]
        sanitizedContent == removeEditorAttributes(content)
        newContentLines  == Split(sanitizedContent)
        originalLines    == Slice(lines, startIdx, endIdx + 1)
        newFileContent   ==
            Join(Splice(lines, startIdx, endIdx - startIdx + 1, newContentLines))
    IN  IF ~loggedIn[s]
        THEN Reply(MultilineResponse(startLine, endLine, s, FALSE, "login", "none", live))
        ELSE IF startLine = 0 \/ endLine = 0
        THEN Reply(MultilineResponse(startLine, endLine, s, FALSE, "missing", "none", live))
        ELSE IF startIdx < 0 \/ endIdx >= Len(lines) \/ startIdx > endIdx
        THEN Reply(MultilineResponse(startLine, endLine, s, FALSE, "invalidLine", "none", live))
        ELSE /\ live' = newFileContent
             /\ bk' = [bk EXCEPT ![today] =
                          RefreshLast([b EXCEPT !.snaps =
                                          WriteSnap(b.snaps, ops, "multiline-edit",
                                                    fileContent)],
                                      newFileContent)]
             /\ history' = [history EXCEPT ![s] =
                              PushHistory(@, MultiEntry(startIdx, endIdx, originalLines,
                                                        Len(newContentLines)))]
             /\ ops' = ops + 1
             /\ resp' = MultilineResponse(startLine, endLine, s, TRUE, "saved", "snapshot", live)
             /\ UNCHANGED <<loggedIn, today, loginAttempts, now>>

\* POST /save-source
SaveSource(s, content) ==
    LET currentContent == live
        b              == bk[today]
    IN  IF ~loggedIn[s]
        THEN Reply(Response("save-source", s, FALSE, "login", "none", live))
        ELSE /\ live' = content
             /\ bk' = [bk EXCEPT ![today] =
                          RefreshLast([b EXCEPT !.snaps =
                                          WriteSnap(b.snaps, ops, "source-edit",
                                                    currentContent)],
                                      content)]
             /\ ops' = ops + 1
             /\ resp' = Response("save-source", s, TRUE, "saved", "snapshot", live)
             /\ UNCHANGED <<history, loggedIn, today, loginAttempts, now>>

UndoSpliceCountSpan(lastAction) ==
    lastAction.endLineIndex - lastAction.lineIndex + 1

\* const newLineCount = lastAction.newLineCount || 1
UndoSpliceCount(lastAction) ==
    IF lastAction.newLineCount = 0 THEN 1 ELSE lastAction.newLineCount

\* POST /undo
Undo(s) ==
    IF history[s] = <<>>
    THEN Reply(Response("undo", s, FALSE, "noHistory", "none", live))
    ELSE LET h          == history[s]
             lastAction == h[Len(h)]
             lines      == Split(live)
             restored   ==
                 IF lastAction.isMultiline
                 THEN Splice(lines, lastAction.lineIndex,
                             UndoSpliceCount(lastAction),
                             lastAction.originalLines)
                 ELSE SetAt(lines, lastAction.lineIndex, lastAction.originalLines[1])
         IN  /\ history' = [history EXCEPT ![s] = SubSeq(h, 1, Len(h) - 1)]
             /\ live' = Join(restored)
             /\ ops' = ops + 1
             /\ resp' = Response("undo", s, TRUE,
                                 IF lastAction.isMultiline THEN "multiline" ELSE "single",
                                 "none", live)
             /\ UNCHANGED <<bk, loggedIn, today, loginAttempts, now>>

\* The names of the files of a day folder, as POST /restore addresses them:
\* the base snapshot, the latest copy, a diff record, a timestamped snapshot.
BackupFiles(b) ==
    (IF b.first = <<>> THEN {} ELSE {[type |-> "first", num |-> 0, ts |-> 0, kind |-> "none"]})
    \cup (IF b.last = <<>> THEN {} ELSE {[type |-> "last", num |-> 0, ts |-> 0, kind |-> "none"]})
    \cup {[type |-> "diff", num |-> n, ts |-> 0, kind |-> "none"] : n \in DOMAIN b.diffs}
    \cup {[type |-> "snap", num |-> 0, ts |-> x.ts, kind |-> x.kind] : x \in b.snaps}

\* fs.readFileSync(backupPath) of a snapshot file
ReadBackup(b, f) ==
    IF f.type = "first" THEN b.first[1]
    ELSE IF f.type = "last" THEN b.last[1]
    ELSE (CHOOSE x \in b.snaps : x.ts = f.ts /\ x.kind = f.kind).content

PreRestoreBackupSkipped(b, ts, currentContent) == b

\* fs.writeFileSync(preRestoreBackup, currentContent)
PreRestoreBackup(b, ts, currentContent) ==
    [b EXCEPT !.snaps = WriteSnap(b.snaps, ts, "pre-restore", currentContent)]

\* POST /restore with backupFile = dateFolder/f
Restore(s, dateFolder, f) ==
    LET currentContent == live
        bk1 == [bk EXCEPT ![today] = PreRestoreBackup(bk[today], ops, currentContent)]
        b   == bk1[dateFolder]
        restoredContent ==
            IF f.type = "diff" THEN reconstructContent(b, f.num)
            ELSE <<ReadBackup(b, f)>>
    IN  IF ~loggedIn[s]
        THEN Reply(Response("restore", s, FALSE, "login", "none", live))
        ELSE IF f \notin BackupFiles(bk[dateFolder])
        THEN Reply(Response("restore", s, FALSE, "notFound", "none", live))
        ELSE /\ bk' = bk1
             /\ ops' = ops + 1
             /\ IF restoredContent = <<>>
                THEN /\ resp' = WithTarget(Response("restore", s, FALSE, "noBase",
                                                    "snapshot", live),
                                           dateFolder, f)
                     /\ UNCHANGED live
                ELSE /\ resp' = WithTarget(Response("restore", s, TRUE, f.type,
                                                    "snapshot", live),
                                           dateFolder, f)
                     /\ live' = restoredContent[1]
             /\ UNCHANGED <<history, loggedIn, today, loginAttempts, now>>

\* midnight passes
NextDay ==
    /\ today < MaxDay
    /\ today' = today + 1
    /\ resp' = Idle
    /\ UNCHANGED <<live, bk, history, loggedIn, ops, loginAttempts, now>>

\* A directory segment of the backupFile parameter: '..', a day folder, or
\* a folder of another name.
Up == [kind |-> "..", day |-> 0, name |-> ""]

DayDir(d) == [kind |-> "day", day |-> d, name |-> ""]

Dir(name) == [kind |-> "dir", day |-> 0, name |-> name]

\* path.join(...): the segments are appended in order and a '..' takes the
\* segment before it away
RECURSIVE PathJoin(_, _)
PathJoin(base, segs) ==
    IF segs = <<>> THEN base
    ELSE LET h == Head(segs)
         IN  PathJoin(IF h.kind = ".."
                      THEN SubSeq(base, 1, Len(base) - 1)
                      ELSE Append(base, h),
                      Tail(segs))

\* path.join(BACKUP_DIR, getBackupFolderName('index.html'))
OwnBackupFolder == << Dir("backups"), Dir("index_html") >>

\* The backup folder of a second file of the site, about.html, edited on day
\* 1: the directory of its latest-content copy, backups/about_html/1, and
\* what that copy holds.
OtherDayFolder == << Dir("backups"), Dir("about_html"), DayDir(1) >>

OtherLast == <<"<", "p", ">", "X", "<", "/", "p", ">">>

LastFile == [type |-> "last", num |-> 0, ts |-> 0, kind |-> "none"]

\* POST /restore with backupFile = dirs/f, dirs any sequence of segments.
\* The handler joins backupFile to the backup folder of filename and opens
\* what the path names; only filename goes through isPathSafe.  (A diff
\* record is named by a day folder and its file name alone.)
RestorePath(s, dirs, f) ==
    LET dir == PathJoin(OwnBackupFolder, dirs)
        inOwnFolder ==
            /\ Len(dir) = Len(OwnBackupFolder) + 1
            /\ SubSeq(dir, 1, Len(OwnBackupFolder)) = OwnBackupFolder
            /\ dir[Len(dir)].kind = "day"
            /\ dir[Len(dir)].day \in Days
        bk1 == [bk EXCEPT ![today] = PreRestoreBackup(bk[today], ops, live)]
    IN  IF inOwnFolder
        THEN /\ f.type = "diff" => Len(dirs) = 1
             /\ Restore(s, dir[Len(dir)].day, f)
        ELSE IF ~loggedIn[s]
        THEN Reply(Response("restore", s, FALSE, "login", "none", live))
        ELSE IF ~(dir = OtherDayFolder /\ f = LastFile)
        THEN Reply(Response("restore", s, FALSE, "notFound", "none", live))
        ELSE /\ bk' = bk1
             /\ ops' = ops + 1
             /\ resp' = WithTarget(Response("restore", s, TRUE, f.type,
                                            "snapshot", live), 0, f)
             /\ live' = OtherLast
             /\ UNCHANGED <<history, loggedIn, today, loginAttempts, now>>

\* the backup files a restore request may name
RestoreTargets ==
    UNION {{[day |-> d, file |-> f] : f \in BackupFiles(bk[d])} : d \in Days}

Next ==
    \/ ops < MaxOps /\ UNCHANGED call /\ \E s \in Sessions : Login(s)
    \/ ops < MaxOps /\ UNCHANGED call /\ \E s \in Sessions : Logout(s)
    \/ ops < MaxOps /\ UNCHANGED call /\ \E s \in Sessions, n \in LineNumbers(live), c \in SaveContents :
          Save(s, n, c)
    \/ ops < MaxOps /\ UNCHANGED call /\ \E s \in Sessions, r \in MultilineRanges, c \in MultilineContents :
          SaveMultiline(s, r[1], r[2], c)
    \/ ops < MaxOps /\ UNCHANGED call /\ \E s \in Sessions, c \in SourceContents : SaveSource(s, c)
    \/ ops < MaxOps /\ UNCHANGED call /\ \E s \in Sessions : Undo(s)
    \/ ops < MaxOps /\ UNCHANGED call /\ \E s \in Sessions, t \in RestoreTargets : Restore(s, t.day, t.file)
    \/ ops < MaxOps /\ UNCHANGED call /\ NextDay

Spec == Init /\ [][Next]_vars

\* The file is changed through POST /save alone.
NextInline ==
    \/ ops < MaxInlineOps /\ UNCHANGED call /\ \E s \in Sessions : Login(s)
    \/ ops < MaxInlineOps /\ UNCHANGED call /\ \E s \in Sessions, n \in LineNumbers(live), c \in SaveContents :
          Save(s, n, c)
    \/ ops < MaxInlineOps /\ UNCHANGED call /\ NextDay

SpecInline == Init /\ [][NextInline]_vars

\* Inline edits on a disk that may refuse the write of the live file.
NextFailingWrite ==
    \/ NextInline
    \/ ops < MaxInlineOps /\ UNCHANGED call
          /\ \E s \in Sessions, n \in LineNumbers(live), c \in SaveContents :
                SaveWriteFails(s, n, c)

SpecFailingWrite == Init /\ [][NextFailingWrite]_vars

\* The save routes with line numbers in and out of range, the answers to the
\* requests they refuse kept in resp.
WatchLineNumbers(content) == (-1)..(Len(Split(content)) + 1)

WatchRanges == MultilineRanges \cup { <<-1, 1>> }

InitWatch ==
    /\ live \in InitDocs
    /\ bk = [d \in Days |-> EmptyBucket]
    /\ history = [s \in Sessions |-> <<>>]
    /\ loggedIn = [s \in Sessions |-> FALSE]
    /\ today = 1
    /\ ops = 0
    /\ resp = Idle
    /\ call = Watch
    /\ loginAttempts = [ip \in IPs |-> <<>>]
    /\ now = 0

NextWatch ==
    \/ ops < MaxOps /\ UNCHANGED call /\ \E s \in Sessions : Login(s)
    \/ ops < MaxOps /\ UNCHANGED call
          /\ \E s \in Sessions, n \in WatchLineNumbers(live), c \in SaveContents :
                Save(s, n, c)
    \/ ops < MaxOps /\ UNCHANGED call
          /\ \E s \in Sessions, r \in WatchRanges, c \in MultilineContents :
                SaveMultiline(s, r[1], r[2], c)

SpecWatch == InitWatch /\ [][NextWatch]_vars

\* Every route with one request body each, the refused requests of a session
\* kept in resp.
MaxSessionOps == 3

NextSession ==
    \/ ops < MaxSessionOps /\ UNCHANGED call /\ \E s \in Sessions : Login(s)
    \/ ops < MaxSessionOps /\ UNCHANGED call /\ \E s \in Sessions : Logout(s)
    \/ ops < MaxSessionOps /\ UNCHANGED call /\ \E s \in Sessions : Save(s, 1, <<"C">>)
    \/ ops < MaxSessionOps /\ UNCHANGED call
          /\ \E s \in Sessions : SaveMultiline(s, 1, 2, LiOpen \o <<"C">> \o LiClose)
    \/ ops < MaxSessionOps /\ UNCHANGED call /\ \E s \in Sessions, c \in SourceContents :
          SaveSource(s, c)
    \/ ops < MaxSessionOps /\ UNCHANGED call /\ \E s \in Sessions : Undo(s)
    \/ ops < MaxSessionOps /\ UNCHANGED call /\ \E s \in Sessions, t \in RestoreTargets :
          Restore(s, t.day, t.file)
    \/ ops < MaxSessionOps /\ UNCHANGED call /\ NextDay

SpecSession == InitWatch /\ [][NextSession]_vars

\* The values of backupFile: every backup file by its day folder, the
\* snapshot files by a path that leaves the day folder and comes back, and
\* paths that leave the backup folder of the file.
BackupFileParams ==
    { [dirs |-> << DayDir(t.day) >>, file |-> t.file] : t \in RestoreTargets }
    \cup { [dirs |-> << DayDir(1), Up, DayDir(t.day) >>, file |-> t.file] :
             t \in { x \in RestoreTargets : x.file.type # "diff" } }
    \cup { [dirs |-> << Up, Dir("about_html"), DayDir(1) >>, file |-> LastFile],
           [dirs |-> << DayDir(1), Up, Up, Dir("about_html"), DayDir(1) >>,
            file |-> LastFile],
           [dirs |-> << Up, Up, Dir("about_html"), DayDir(1) >>, file |-> LastFile] }

MaxPathOps == 2

NextPaths ==
    \/ ops < MaxPathOps /\ UNCHANGED call /\ \E s \in Sessions : Login(s)
    \/ ops < MaxPathOps /\ UNCHANGED call /\ \E s \in Sessions, n \in LineNumbers(live), c \in SaveContents :
          Save(s, n, c)
    \/ ops < MaxPathOps /\ UNCHANGED call /\ \E s \in Sessions, p \in BackupFileParams :
          RestorePath(s, p.dirs, p.file)
    \/ ops < MaxPathOps /\ UNCHANGED call /\ NextDay

SpecPaths == Init /\ [][NextPaths]_vars

----------------------------------------------------------------------------
(* The login lockout *)

\* milliseconds: the counting window, the length of a block, the period of
\* the clean-up timer
Window == 60000

BlockTime == 3600000

CleanupPeriod == 3600000

MaxFailures == 5

\* ADMIN_PASSWORD and a password that is not it
RightPassword == "right"

Passwords == {"right", "wrong"}

\* the time between one POST /login and the next
Elapsed == {15000, 60001, 3599999, 3600000}

\* { count: 1, firstAttempt: now, blockedUntil: null }, <<>> standing for null
NewAttempt(t) == [count |-> 1, firstAttempt |-> t, blockedUntil |-> <<>>]

CountFailureNoWindow(entry, t) ==
    IF entry = <<>> THEN NewAttempt(t)
    ELSE [entry[1] EXCEPT !.count = @ + 1]

\* the failure record after one more wrong password at time t; entry is
\* loginAttempts.get(ip), <<>> when the map has no record
CountFailure(entry, t) ==
    IF entry = <<>> THEN NewAttempt(t)
    ELSE IF t - entry[1].firstAttempt > Window
    THEN [entry[1] EXCEPT !.count = 1, !.firstAttempt = t]
    ELSE [entry[1] EXCEPT !.count = @ + 1]

\* the setInterval callback at time t
CleanupAttempts(attempts, t) ==
    [ip \in IPs |->
        LET data == attempts[ip]
        IN  IF data = <<>> THEN <<>>
            ELSE IF data[1].blockedUntil # <<>> /\ data[1].blockedUntil[1] < t
            THEN <<>>
            ELSE IF data[1].blockedUntil = <<>> /\ t - data[1].firstAttempt > Window
            THEN <<>>
            ELSE data]

\* the map at time t1 when it was attempts at time t0 and no request came in
\* between: the timer fires at the multiples of its period (t1 - t0 is at
\* most one period)
AfterTimers(attempts, t0, t1) ==
    LET fires == ((t0 \div CleanupPeriod) + 1) * CleanupPeriod
    IN  IF fires <= t1 THEN CleanupAttempts(attempts, fires) ELSE attempts

\* the answer to a POST /login
LoginResponse(s, ip, password, success, outcome) ==
    [Response("login", s, success, outcome, "none", <<>>) EXCEPT
        !.req = <<password>>, !.target = <<ip>>]

\* POST /login from ip, elapsed milliseconds after the request before it
PostLogin(s, ip, password, elapsed) ==
    LET t       == now + elapsed
        map     == AfterTimers(loginAttempts, now, t)
        data    == map[ip]
        blocked == data # <<>> /\ data[1].blockedUntil # <<>>
                      /\ data[1].blockedUntil[1] > t
        expired == data # <<>> /\ data[1].blockedUntil # <<>> /\ ~blocked
        entry   == IF expired THEN <<>> ELSE data
        attemptData == CountFailure(entry, t)
    IN  /\ now' = t
        /\ ops' = ops + 1
        /\ IF blocked
           THEN /\ resp' = LoginResponse(s, ip, password, FALSE, "blocked")
                /\ loginAttempts' = map
                /\ UNCHANGED loggedIn
           ELSE IF password = RightPassword
           THEN /\ resp' = LoginResponse(s, ip, password, TRUE, "loggedIn")
                /\ loginAttempts' = [map EXCEPT ![ip] = <<>>]
                /\ loggedIn' = [loggedIn EXCEPT ![s] = TRUE]
           ELSE IF attemptData.count >= MaxFailures
           THEN /\ resp' = LoginResponse(s, ip, password, FALSE, "lockedOut")
                /\ loginAttempts' =
                      [map EXCEPT ![ip] =
                          << [attemptData EXCEPT !.blockedUntil = <<t + BlockTime>>] >>]
                /\ UNCHANGED loggedIn
           ELSE /\ resp' = LoginResponse(s, ip, password, FALSE, "wrongPassword")
                /\ loginAttempts' = [map EXCEPT ![ip] = <<attemptData>>]
                /\ UNCHANGED loggedIn
        /\ UNCHANGED <<live, bk, history, today, call>>

MaxLoginOps == 7

NextLogin ==
    \/ /\ ops < MaxLoginOps
       /\ \E s \in Sessions, ip \in IPs, password \in Passwords, elapsed \in Elapsed :
             PostLogin(s, ip, password, elapsed)
    \/ ops < MaxLoginOps /\ UNCHANGED call /\ \E s \in Sessions : Logout(s)

InitLogin == Init /\ live = DocList

SpecLogin == InitLogin /\ [][NextLogin]_vars

\* One long day: the first line of the list document is saved over and over
\* with the text it already holds, which keeps the diff chain of the day
\* consistent; once the chain is long the edits may change the text.
LongContents ==
    IF Len(bk[today].diffs) < MaxTwoDigit - 1 THEN { <<"A">> } ELSE { <<"A">>, <<"C">> }

InitLong == Init /\ live = DocList

NextLong ==
    \/ ops < MaxLongOps /\ UNCHANGED call /\ \E s \in Sessions : Login(s)
    \/ ops < MaxLongOps /\ UNCHANGED call /\ \E s \in Sessions, c \in LongContents : Save(s, 1, c)

SpecLongDay == InitLong /\ [][NextLong]_vars

\* The long day, with POST /restore of the diff records at the far end of
\* the chain.
NextLongRestore ==
    \/ NextLong
    \/ ops < MaxLongOps /\ UNCHANGED call
          /\ \E s \in Sessions, t \in RestoreTargets :
                /\ t.file.type = "diff"
                /\ t.file.num >= MaxTwoDigit
                /\ Restore(s, t.day, t.file)

SpecLongRestore == InitLong /\ [][NextLongRestore]_vars

\* Filling and emptying one undo history: the first line of the list
\* document is saved with a text that is longer at every request, so that no
\* two history entries are alike; undo may come at any moment, and saves go on
\* after an undo while the history is nearly full.
StackContent == [i \in 1..(ops + 2) |-> "A"]

InitStack == Init /\ live = DocList

NextStack ==
    \/ ops < MaxPushes /\ UNCHANGED call /\ \E s \in Sessions : Login(s)
    \/ /\ ops < MaxPushes /\ UNCHANGED call
       /\ \E s \in Sessions :
             /\ resp.op # "undo" \/ Len(history[s]) >= HistoryLimit - 2
             /\ Save(s, 1, StackContent)
    \/ ops < MaxPushes + HistoryLimit /\ UNCHANGED call /\ \E s \in Sessions : Undo(s)

SpecUndoStack == InitStack /\ [][NextStack]_vars

\* One session edits the list document through POST /save and
\* POST /save-multiline and then takes its edits back through POST /undo.
MaxEditUndoOps == 4

NextEditUndo ==
    \/ ops < MaxEditUndoOps /\ UNCHANGED call /\ \E s \in Sessions : Login(s)
    \/ /\ ops < MaxEditUndoOps /\ UNCHANGED call /\ resp.op # "undo"
       /\ \E s \in Sessions, n \in LineNumbers(live), c \in SaveContents : Save(s, n, c)
    \/ /\ ops < MaxEditUndoOps /\ UNCHANGED call /\ resp.op # "undo"
       /\ \E s \in Sessions, r \in MultilineRanges, c \in MultilineContents :
             SaveMultiline(s, r[1], r[2], c)
    \/ ops < MaxEditUndoOps /\ UNCHANGED call /\ \E s \in Sessions : Undo(s)

SpecEditUndo == InitStack /\ [][NextEditUndo]_vars

\* GET /line-info
LineInfo(s, line) ==
    LET lines     == Split(live)
        lineIndex == line - 1
        tagMatch  == TagMatch(lines[lineIndex + 1])
        closingLoc   == findClosingTagLocation(lines, lineIndex, tagMatch.name)
        endLineIndex == IF closingLoc.lineIndex # -1 THEN closingLoc.lineIndex
                        ELSE lineIndex
    IN  IF ~loggedIn[s]
        THEN Reply(Response("line-info", s, FALSE, "login", "none", live))
        ELSE IF line = 0
        THEN Reply(Response("line-info", s, FALSE, "missing", "none", live))
        ELSE IF lineIndex < 0 \/ lineIndex >= Len(lines)
        THEN Reply(Response("line-info", s, FALSE, "invalidLine", "none", live))
        ELSE /\ call' =
                  [fn |-> "line-info", lines |-> lines, lineIndex |-> lineIndex,
                   arg |-> <<>>,
                   out |-> IF tagMatch.index = -1
                           THEN [success |-> FALSE, startLine |-> 0, endLine |-> 0,
                                 content |-> <<>>]
                           ELSE [success |-> TRUE, startLine |-> lineIndex + 1,
                                 endLine |-> endLineIndex + 1,
                                 content |-> Join(Slice(lines, lineIndex,
                                                        endLineIndex + 1))]]
             /\ UNCHANGED <<live, bk, history, loggedIn, today, loginAttempts, now, ops, resp>>

\* replaceSingleLine applied to the lines of the file
CallReplaceSingleLine(lineIndex, newContent) ==
    /\ call' = [fn |-> "replaceSingleLine", lines |-> Split(live),
                lineIndex |-> lineIndex, arg |-> newContent,
                out |-> replaceSingleLine(Split(live), lineIndex, newContent)]
    /\ UNCHANGED <<live, bk, history, loggedIn, today, loginAttempts, now, ops, resp>>

\* findClosingTagLocation applied to the lines of the file
CallFindClosingTagLocation(startLineIndex, tagName) ==
    /\ call' = [fn |-> "findClosingTagLocation", lines |-> Split(live),
                lineIndex |-> startLineIndex, arg |-> tagName,
                out |-> findClosingTagLocation(Split(live), startLineIndex, tagName)]
    /\ UNCHANGED <<live, bk, history, loggedIn, today, loginAttempts, now, ops, resp>>

\* The documents the text engine is exercised on.
\* </ul><li>A</li> : the line starts with the closing tag of another element
DocAfterClose == UlClose \o LiOpen \o <<"A">> \o LiClose

\* x<li a><b>A</b></li>y : an attribute, a tag inside, text on both sides
DocSeveralTags ==
    <<"x", "<", "l", "i", " ", "a", ">", "<", "b", ">", "A", "<", "/", "b", ">">>
        \o LiClose \o <<"y">>

\* <ul> / <li> / A / </li></ul> : a text-only <li> over three lines whose
\* last line goes on after the closing tag, inside a <ul> spanning all lines
DocTail == Join(<< UlOpen, LiOpen, <<"A">>, LiClose \o UlClose >>)

\* <ul><li><ul><li>a</li></ul></li></ul>
DocDeep ==
    UlOpen \o LiOpen \o UlOpen \o LiOpen \o <<"a">> \o LiClose \o UlClose
        \o LiClose \o UlClose

\* <li><ul> / <li>a</li> / </ul></li> : the same nesting over three lines
DocDeepLines ==
    Join(<< LiOpen \o UlOpen, LiOpen \o <<"a">> \o LiClose, UlClose \o LiClose >>)

\* <ul> / <li>A</li> / B : a <ul> that is never closed, a line without a tag
DocUnclosed == Join(<< UlOpen, LiOpen \o <<"A">> \o LiClose, <<"B">> >>)

\* <LI> / A / </li> : letter case differs between the tags
DocUpper == Join(<< <<"<", "L", "I", ">">>, <<"A">>, LiClose >>)

\* <li><link> / A / </li> : a tag whose name starts with the letters li
DocLink == Join(<< LiOpen \o <<"<", "l", "i", "n", "k", ">">>, <<"A">>, LiClose >>)

EngineDocs ==
    {DocList, DocSpread, DocAfterClose, DocSeveralTags, DocTail, DocDeep,
     DocDeepLines, DocUnclosed, DocUpper, DocLink}

\* the tagName argument of findClosingTagLocation
TagNames == { <<"l", "i">>, <<"L", "I">>, <<"u", "l">> }

InitEngine ==
    /\ live \in EngineDocs
    /\ bk = [d \in Days |-> EmptyBucket]
    /\ history = [s \in Sessions |-> <<>>]
    /\ loggedIn = [s \in Sessions |-> FALSE]
    /\ today = 1
    /\ ops = 0
    /\ resp = Idle
    /\ call = NoCall
    /\ loginAttempts = [ip \in IPs |-> <<>>]
    /\ now = 0

NextEngine ==
    \/ ops < MaxEngineOps /\ UNCHANGED call /\ \E s \in Sessions : Login(s)
    \/ ops < MaxEngineOps /\ UNCHANGED call
          /\ \E s \in Sessions, n \in LineNumbers(live), c \in SaveContents : Save(s, n, c)
    \/ \E s \in Sessions, n \in LineNumbers(live) : LineInfo(s, n)
    \/ \E i \in 0..(Len(Split(live)) - 1), c \in SaveContents :
          CallReplaceSingleLine(i, c)
    \/ \E i \in 0..(Len(Split(live)) - 1), t \in TagNames :
          CallFindClosingTagLocation(i, t)

SpecEngine == InitEngine /\ [][NextEngine]_vars

----------------------------------------------------------------------------
(* The line markers *)

\* The documents the marker functions are called with: every text of up to
\* MaxMarkerLines of the lines below.

\* <p>A: a tag the editor marks
LineP == <<"<","p",">","A">>

\* <UL>: an excluded tag in upper case
LineUpperUl == <<"<","U","L",">">>

\* <a\r: a tag that ends a line of a file with CRLF line ends
LineCr == <<"<","a","\r">>

\* <p data-line="9">: a line that carries a marker
LineMarked == <<"<","p"," ","d","a","t","a","-","l","i","n","e","=","\"","9","\"",">">>

\* <p contenteditable="">: a line with an editor attribute and no marker
LineEditable == <<"<","p"," ","c","o","n","t","e","n","t","e","d","i","t","a","b","l","e","=","\"","\"",">">>

\* <p data-ldata-line="1"ine="2">: a marker written inside the name of another marker
LineNestedMarker == <<"<","p"," ","d","a","t","a","-","l","d","a","t","a","-","l","i","n","e","=","\"","1","\"","i","n","e","=","\"","2","\"",">">>

\* <b-x>: a tag name followed by a dash
LineDashed == <<"<","b","-","x",">">>

\* x<i\ty>: text, then a tag name followed by a tab
LineTab == <<"x","<","i","\t","y",">">>

\* A: no tag
LineText == <<"A">>

MarkerLines ==
    { LineP, LineUpperUl, LineCr, LineMarked, LineEditable,
      LineNestedMarker, LineDashed, LineTab, LineText }

MarkerDocs ==
    { Join(ls) : ls \in UNION { [1..n -> MarkerLines] : n \in 1..MaxMarkerLines } }

\* a call of injectLineNumbers(content)
CallInjectLineNumbers(content) ==
    /\ call' = [fn |-> "injectLineNumbers", lines |-> <<>>, lineIndex |-> 0,
                arg |-> content, out |-> injectLineNumbers(content)]
    /\ UNCHANGED <<live, bk, history, loggedIn, today, loginAttempts, now, ops, resp>>

\* a call of removeEditorAttributes(content)
CallRemoveEditorAttributes(content) ==
    /\ call' = [fn |-> "removeEditorAttributes", lines |-> <<>>, lineIndex |-> 0,
                arg |-> content, out |-> removeEditorAttributes(content)]
    /\ UNCHANGED <<live, bk, history, loggedIn, today, loginAttempts, now, ops, resp>>

\* The two marker functions, called with the document and with what the
\* call before returned.
InitMarker ==
    /\ live \in MarkerDocs
    /\ bk = [d \in Days |-> EmptyBucket]
    /\ history = [s \in Sessions |-> <<>>]
    /\ loggedIn = [s \in Sessions |-> FALSE]
    /\ today = 1
    /\ ops = 0
    /\ resp = Idle
    /\ call = NoCall
    /\ loginAttempts = [ip \in IPs |-> <<>>]
    /\ now = 0

NextMarker ==
    \/ \E x \in {live, call.out} : CallInjectLineNumbers(x)
    \/ \E x \in {live, call.out} : CallRemoveEditorAttributes(x)

SpecMarker == InitMarker /\ [][NextMarker]_vars

\* Content as the editor page sends it back, still carrying the attributes
\* the page works with.
\* <b data-line="1">C</b>
MarkedText == <<"<","b"," ","d","a","t","a","-","l","i","n","e","=","\"","1","\"",">","C","<","/","b",">">>

\* <li contenteditable="">C</li>
MarkedItem == <<"<","l","i"," ","c","o","n","t","e","n","t","e","d","i","t","a","b","l","e","=","\"","\"",">","C","<","/","l","i",">">>

\* <li data-line="1">A</li>
MarkedSource == <<"<","l","i"," ","d","a","t","a","-","l","i","n","e","=","\"","1","\"",">","A","<","/","l","i",">">>

MarkedContents == {MarkedText, MarkedItem}

\* The three save routes, called with such content.
NextMarked ==
    \/ ops < MaxOps /\ UNCHANGED call /\ \E s \in Sessions : Login(s)
    \/ ops < MaxOps /\ UNCHANGED call
          /\ \E s \in Sessions, n \in LineNumbers(live), c \in MarkedContents :
                Save(s, n, c)
    \/ ops < MaxOps /\ UNCHANGED call
          /\ \E s \in Sessions, r \in MultilineRanges, c \in MarkedContents :
                SaveMultiline(s, r[1], r[2], c)
    \/ ops < MaxOps /\ UNCHANGED call
          /\ \E s \in Sessions : SaveSource(s, MarkedSource)
    \/ ops < MaxOps /\ UNCHANGED call /\ \E s \in Sessions : Undo(s)

SpecMarkedSave == Init /\ [][NextMarked]_vars

----------------------------------------------------------------------------
(* The backup folder of a file *)

\* filename.replace(/\./g, '_').replace(/[\/\\]/g, '__')
RECURSIVE getBackupFolderName(_)
getBackupFolderName(filename) ==
    IF Len(filename) = 0 THEN <<>>
    ELSE LET c == Head(filename)
         IN  (IF c = "." THEN <<"_">>
              ELSE IF c = "/" \/ c = "\\" THEN <<"_", "_">>
              ELSE <<c>>) \o getBackupFolderName(Tail(filename))

PathChars == {"a", "b", ".", "_", "/"}

\* a path below PUBLIC_DIR: no empty folder or file name, no '..', no dot
\* at either end
ValidStem(p) ==
    /\ p[1] \notin {"/", "."} /\ p[Len(p)] \notin {"/", "."}
    /\ \A i \in 1..(Len(p) - 1) :
          ~(p[i] = "/" /\ p[i + 1] = "/") /\ ~(p[i] = "." /\ p[i + 1] = ".")

HtmlExt == <<".", "h", "t", "m", "l">>

\* the files the editor may be asked for
FileNames ==
    { p \o HtmlExt :
        p \in { q \in UNION { [1..n -> PathChars] : n \in 1..MaxStemLen } :
                  ValidStem(q) } }

\* a call of getBackupFolderName(filename)
CallGetBackupFolderName(filename) ==
    /\ call' = [fn |-> "getBackupFolderName", lines |-> <<>>, lineIndex |-> 0,
                arg |-> filename, out |-> getBackupFolderName(filename)]
    /\ UNCHANGED <<live, bk, history, loggedIn, today, loginAttempts, now, ops, resp>>

NextFolders == \E f \in FileNames : CallGetBackupFolderName(f)

SpecFolders == InitStack /\ [][NextFolders]_vars

----------------------------------------------------------------------------
(* Properties *)

\* the step is a POST /save that got past its checks and wrote its backup
SaveStep == ops' = ops + 1 /\ resp'.op = "save"

\* the step is a POST /undo of session s that restored an entry
UndoStep(s) == ops' = ops + 1 /\ resp'.op = "undo" /\ resp'.session = s

\* C1: immediately after every successful POST /save, replaying the day's
\* chain (00_first plus all diff records, no upper bound) yields exactly the
\* live file content.
C1_ChainReplaysToLive ==
    (resp.op = "save" /\ resp.success)
        => reconstructContent(bk[today], Infinity) = <<live>>

\* C2: an accepted POST /save in a day folder that has a base snapshot writes
\* exactly one new diff record for the edited line and no snapshot when the
\* replay of the chain equals the live file, and exactly one auto-snapshot
\* of the live file and no diff record when it differs; the other day
\* folders are left alone.
C2_DiffOrSnapshot ==
    [][ (SaveStep /\ bk[today].first # <<>>) =>
          LET b  == bk[today]
              b2 == bk'[today]
          IN  /\ \A d \in Days \ {today} : bk'[d] = bk[d]
              /\ b2.first = b.first
              /\ IF reconstructContent(b, Infinity) = <<live>>
                 THEN /\ b2.snaps = b.snaps
                      /\ \E n \in DOMAIN b2.diffs :
                            /\ DOMAIN b2.diffs = (DOMAIN b.diffs) \cup {n}
                            /\ \A m \in (DOMAIN b.diffs) \ {n} : b2.diffs[m] = b.diffs[m]
                            /\ n \in DOMAIN b.diffs => b2.diffs[n] # b.diffs[n]
                            /\ b2.diffs[n].timestamp = ops
                            /\ b2.diffs[n].lineNumber \in 1..Len(Split(live))
                            /\ b2.diffs[n].before =
                                   Split(live)[b2.diffs[n].lineNumber]
                 ELSE /\ b2.diffs = b.diffs
                      /\ b2.snaps = b.snaps \cup
                            {[ts |-> ops, kind |-> "auto-snapshot", content |-> live]}
                      /\ Cardinality(b2.snaps) = Cardinality(b.snaps) + 1
    ]_vars

C2_Witness ==
    /\ resp.op = "save" /\ resp.success /\ resp.backup = "diff"
    /\ Len(bk[today].diffs) = 1
    /\ bk[today].snaps = {}

\* C3: once an integrity mismatch has produced an auto-snapshot, the next
\* POST /save on the file nobody touched since the previous save passes the
\* integrity check and is recorded as a diff.
C3_SaveAfterSnapshotIsDiff ==
    [][ (/\ resp.op = "save" /\ resp.success /\ resp.backup = "snapshot"
         /\ SaveStep /\ resp'.success)
        => resp'.backup = "diff" ]_vars

\* C4: within one day, with the file changed through POST /save only, the
\* first successful inline edit is stored as a full snapshot and every later
\* successful same-line edit as a diff record, never as another full
\* snapshot.
C4_LaterEditsAreDiffs ==
    (resp.op = "save" /\ resp.success /\ resp.outcome = "replaced")
        => resp.backup \in {"first", "diff"}

\* C5 as stated: every day folder that exists holds a base snapshot.
C5_EveryBucketHasBase ==
    \A d \in Days : BucketExists(bk[d]) => bk[d].first # <<>>

\* C5 as amended: the base snapshot of a day folder is written only by a
\* POST /save into today's folder, with the live content the handler read
\* and together with the latest-content copy, and once written it is never
\* rewritten, changed or removed by any request.
C5_BaseWrittenOnceBySave ==
    [][ \A d \in Days :
          /\ bk[d].first # <<>> => bk'[d].first = bk[d].first
          /\ (bk[d].first = <<>> /\ bk'[d].first # <<>>) =>
                /\ d = today
                /\ SaveStep
                /\ bk'[d].first = <<live>>
                /\ bk'[d].last = <<live'>>
    ]_vars

C5_Witness ==
    /\ bk[today].first # <<>>
    /\ resp.op \in {"save-multiline", "save-source", "restore", "undo"}
    /\ resp.success
    /\ bk[today].first # <<live>>

\* the replay as the claim words it: the base snapshot with the diffs of
\* sequence number 1..k applied in ascending order, a diff whose line number
\* is outside the content being skipped
SetLine(content, d) ==
    IF d.lineNumber \in 1..Len(Split(content))
    THEN Join([Split(content) EXCEPT ![d.lineNumber] = d.after])
    ELSE content

\* the diffs numbered lo..hi applied to content in ascending order
RECURSIVE ReplayBetween(_, _, _, _)
ReplayBetween(content, diffs, lo, hi) ==
    IF lo > hi THEN content
    ELSE IF lo = hi
         THEN IF lo \in DOMAIN diffs THEN SetLine(content, diffs[lo]) ELSE content
    ELSE LET mid   == (lo + hi) \div 2
             lower == ReplayBetween(content, diffs, lo, mid)
         IN  IF lower = content
             THEN ReplayBetween(content, diffs, mid + 1, hi)
             ELSE ReplayBetween(lower, diffs, mid + 1, hi)

ReplayUpTo(base, diffs, k) == ReplayBetween(base, diffs, 1, k)

\* the sequence numbers asked for: the first ones of the chain, its last
\* ones and one past its end
TargetNums(b) ==
    LET n == Cardinality(DOMAIN b.diffs)
    IN  {k \in 0..(n + 1) : k <= 2 \/ k >= n - 1}

\* C6: reconstructContent(bucket, k) is the base snapshot with exactly the
\* diffs of sequence number <= k applied in ascending order, and null only
\* when the base snapshot is missing.
C6_ReconstructIsReplay ==
    \A d \in Days :
        LET b == bk[d]
        IN  /\ (reconstructContent(b, Infinity) = <<>>) <=> (b.first = <<>>)
            /\ b.first # <<>> =>
                 /\ \A k \in TargetNums(b) :
                       reconstructContent(b, k) = <<ReplayUpTo(b.first[1], b.diffs, k)>>
                 /\ reconstructContent(b, Infinity) =
                       <<ReplayUpTo(b.first[1], b.diffs, Cardinality(DOMAIN b.diffs))>>

\* C7: diff records get strictly increasing sequence numbers in the order
\* they are written, and a record once written is never overwritten or
\* altered by a later save.
C7_DiffsAppendOnly ==
    [][ \A d \in Days :
          /\ \A n \in DOMAIN bk[d].diffs :
                n \in DOMAIN bk'[d].diffs /\ bk'[d].diffs[n] = bk[d].diffs[n]
          /\ \A n \in (DOMAIN bk'[d].diffs) \ (DOMAIN bk[d].diffs) :
                \A m \in DOMAIN bk[d].diffs : m < n
    ]_vars

\* C8: after every successful POST /save, /save-multiline and /save-source
\* the day's latest-content copy equals the live file the edit produced.
C8_LastEqualsLive ==
    (resp.op \in {"save", "save-multiline", "save-source"} /\ resp.success)
        => bk[today].last = <<live>>

C8_Witness ==
    /\ resp.op = "save-multiline" /\ resp.success
    /\ live # resp.pre
    /\ bk[today].last = <<live>>

\* C9: a successful same-line POST /save followed immediately by POST /undo
\* of the same session restores the live file to its content before the
\* edit.
C9_UndoRestoresSameLineEdit ==
    [][ (/\ resp.op = "save" /\ resp.success /\ resp.outcome = "replaced"
         /\ UndoStep(resp.session))
        => live' = resp.pre ]_vars

\* C10: a POST /save that collapsed a text-only multiline region to one line,
\* followed immediately by POST /undo, restores every original line of the
\* region: the live file equals its content before the edit.
C10_UndoRestoresPromotion ==
    [][ (/\ resp.op = "save" /\ resp.success /\ resp.outcome = "promoted"
         /\ UndoStep(resp.session))
        => live' = resp.pre ]_vars

\* C11: a successful POST /save-multiline, whatever the number of lines of
\* its content, followed immediately by POST /undo of the same session
\* restores the live file to exactly its content before the edit.
C11_UndoRestoresMultilineEdit ==
    [][ (/\ resp.op = "save-multiline" /\ resp.success
         /\ UndoStep(resp.session))
        => live' = resp.pre ]_vars

\* an undo has just taken back a multiline edit that had changed the number
\* of lines of the file
C11_Witness ==
    /\ resp.op = "undo" /\ resp.success /\ resp.outcome = "multiline"
    /\ Len(Split(resp.pre)) # Len(Split(live))

\* the step pushes an entry onto the history of session s
PushStep(s) ==
    /\ ops' = ops + 1
    /\ resp'.op \in {"save", "save-multiline"}
    /\ resp'.success
    /\ resp'.session = s

\* C12: the undo history of a session is a LIFO of capacity 20: it never
\* holds more than 20 entries; a push appends the entry of the edit, after
\* dropping the oldest entry when 20 are held; an undo removes the newest
\* entry and puts the line that entry recorded back into the file.
C12_BoundedLifo ==
    [][ \A s \in Sessions :
          LET h  == history[s]
              h2 == history'[s]
              n  == Len(h)
              shift == IF n = HistoryLimit THEN 1 ELSE 0
          IN  /\ Len(h2) <= HistoryLimit
              /\ PushStep(s) =>
                    /\ Len(h2) = n + 1 - shift
                    /\ \A i \in 1..(Len(h2) - 1) : h2[i] = h[i + shift]
                    /\ resp'.op = "save" =>
                          h2[Len(h2)].originalLines =
                              << Split(live)[h2[Len(h2)].lineIndex + 1] >>
              /\ UndoStep(s) =>
                    /\ n > 0
                    /\ h2 = SubSeq(h, 1, n - 1)
                    /\ ~h[n].isMultiline =>
                          Split(live')[h[n].lineIndex + 1] = h[n].originalLines[1]
    ]_vars

\* an undo has popped a full history whose oldest entries had been evicted
C12_Witness ==
    /\ resp.op = "undo" /\ resp.success
    /\ Len(history["s1"]) = HistoryLimit - 1
    /\ history["s1"][1].originalLines[1] # Split(DocList)[1]

\* the step is an edit of session s that an edit endpoint accepted and that
\* changed the live file
EditStep(s) ==
    /\ ops' = ops + 1
    /\ resp'.op \in {"save", "save-multiline", "save-source"}
    /\ resp'.success
    /\ resp'.session = s
    /\ live' # live

\* C13: every accepted edit that changes the live file through POST /save,
\* POST /save-multiline or POST /save-source pushes exactly one entry onto
\* the undo history of the caller's session, and every POST /undo removes
\* exactly one entry.
C13_EveryEditPushesOneEntry ==
    [][ \A s \in Sessions :
          LET h  == history[s]
              h2 == history'[s]
          IN  /\ EditStep(s) =>
                    /\ h2 # <<>>
                    /\ h2 # h
                    /\ \/ SubSeq(h2, 1, Len(h2) - 1) = h
                       \/ Len(h) = HistoryLimit /\ SubSeq(h2, 1, Len(h2) - 1) = Tail(h)
              /\ UndoStep(s) => h2 = SubSeq(h, 1, Len(h) - 1)
    ]_vars

\* what stands at offset i of text: an opening or a closing occurrence of
\* tagName, in any letter case and ending at a tag-name boundary, or neither
TagOccurrence(text, i, tagName) ==
    LET n       == Len(tagName)
        closing == i + 1 < Len(text) /\ text[i + 2] = "/"
        j       == IF closing THEN i + 2 ELSE i + 1
    IN  IF /\ text[i + 1] = "<"
           /\ j + n <= Len(text)
           /\ LowerStr(SubSeq(text, j + 1, j + n)) = LowerStr(tagName)
           /\ (j + n = Len(text) \/ ~IsWordChar(text[j + n + 1]))
        THEN (IF closing THEN "close" ELSE "open")
        ELSE "none"

\* The closing occurrence of tagName that balances the occurrences counted
\* from offset `from` of line startLineIndex on: the first closing occurrence
\* at which openings and closings are equal in number.  lineIndex = -1 when
\* there is none.
BalancedClose(lines, startLineIndex, from, tagName) ==
    LET text == Join(SubSeq(lines, startLineIndex + 1, Len(lines)))
        occ  == {i \in from..(Len(text) - 1) : TagOccurrence(text, i, tagName) # "none"}
        opens(c)  == {i \in occ : i <= c /\ TagOccurrence(text, i, tagName) = "open"}
        closes(c) == {i \in occ : i <= c /\ TagOccurrence(text, i, tagName) = "close"}
        hits == {c \in occ : /\ TagOccurrence(text, c, tagName) = "close"
                             /\ Cardinality(opens(c)) = Cardinality(closes(c))}
    IN  IF hits = {} THEN [lineIndex |-> -1, index |-> -1]
        ELSE LET c  == Min(hits)
                 nl == {k \in 0..(c - 1) : text[k + 1] = NL}
             IN  [lineIndex |-> startLineIndex + Cardinality(nl),
                  index |-> IF nl = {} THEN c ELSE c - Max(nl) - 1]

\* the first opening tag of a line: where it starts, where its '>' is, its
\* name, and where the first closing tag of that name stands after it on the
\* line; -1 for what is missing
FirstTag(line) ==
    LET P == {i \in 0..(Len(line) - 2) : line[i + 1] = "<" /\ IsLetter(line[i + 2])}
    IN  IF P = {} THEN [at |-> -1, gt |-> -1, name |-> <<>>, close |-> -1]
        ELSE LET p    == Min(P)
                 E    == {j \in (p + 1)..(Len(line) - 1) : ~IsAlnum(line[j + 1])}
                 e    == IF E = {} THEN Len(line) ELSE Min(E)
                 name == SubSeq(line, p + 2, e)
                 G    == {j \in p..(Len(line) - 1) : line[j + 1] = ">"}
                 gt   == IF G = {} THEN -1 ELSE Min(G)
                 Q    == {j \in (gt + 1)..(Len(line) - Len(name) - 3) :
                             /\ gt # -1
                             /\ TagOccurrence(line, j, name) = "close"
                             /\ line[j + Len(name) + 3] = ">"}
             IN  [at |-> p, gt |-> gt, name |-> name,
                  close |-> IF Q = {} THEN -1 ELSE Min(Q)]

\* C14: for a line whose first opening tag has its closing tag on the same
\* line, replaceSingleLine (given content without editor attributes)
\* replaces exactly the text between the '>' of that opening tag and the '<'
\* of that closing tag: everything up to and including the opening tag and
\* everything from the closing tag on stays, and so does every other line.
C14_ReplacesBetweenTags ==
    call.fn = "replaceSingleLine" =>
        LET line == call.lines[call.lineIndex + 1]
            t    == FirstTag(line)
        IN  (t.at # -1 /\ t.gt # -1 /\ t.close # -1) =>
               /\ call.out.originalLine = <<line>>
               /\ call.out.lines =
                     [call.lines EXCEPT ![call.lineIndex + 1] =
                         SubSeq(line, 1, t.gt + 1) \o call.arg
                             \o SubSeq(line, t.close + 1, Len(line))]

\* the line has an opening tag whose closing tag is not on the line, and the
\* closing occurrence that balances it stands on line `e` (0-based; -1 when
\* the document ends first)
RegionEnd(lines, lineIndex) ==
    LET t == FirstTag(lines[lineIndex + 1])
    IN  IF t.at = -1 THEN -1
        ELSE BalancedClose(lines, lineIndex, t.at, t.name).lineIndex

\* replaceSingleLine collapsed a region of several lines into one line
Promoted(c) ==
    /\ c.fn = "replaceSingleLine"
    /\ c.out.originalLine # <<>>
    /\ FirstTag(c.lines[c.lineIndex + 1]).close = -1

\* C16: on a multiline promotion the lines of the region are replaced by
\* exactly one line: the original start line up to and including its opening
\* tag, leading whitespace as it was, then the new content and the closing
\* tag.
C16_PromotionKeepsIndent ==
    Promoted(call) =>
        LET line == call.lines[call.lineIndex + 1]
            t    == FirstTag(line)
            e    == RegionEnd(call.lines, call.lineIndex)
        IN  /\ e >= call.lineIndex
            /\ call.out.lines =
                  SubSeq(call.lines, 1, call.lineIndex)
                  \o << SubSeq(line, 1, t.gt + 1)
                        \o call.arg \o <<"<", "/">> \o t.name \o <<">">> >>
                  \o SubSeq(call.lines, e + 2, Len(call.lines))

\* the addressed line has no opening tag, or its opening tag has no balanced
\* closing tag up to the end of the document
NoRegion(lines, lineIndex) ==
    LET t == FirstTag(lines[lineIndex + 1])
    IN  \/ t.at = -1
        \/ BalancedClose(lines, lineIndex, t.at, t.name).lineIndex = -1

\* C17: for a line without an opening tag, or whose opening tag has no
\* balanced closing tag up to the end of the document, replaceSingleLine
\* answers Unsupported (no edit and no deferred multiline result) and GET
\* /line-info reports no region.
C17_MissingCloseIsUnsupported ==
    /\ call.fn = "replaceSingleLine" /\ NoRegion(call.lines, call.lineIndex)
          => /\ call.out.originalLine = <<>>
             /\ ~call.out.isMultiline
             /\ call.out.lines = call.lines
    /\ call.fn = "line-info" /\ NoRegion(call.lines, call.lineIndex)
          => ~call.out.success

\* C19: findClosingTagLocation, started from the opening tag it finds on the
\* start line, returns the line and offset of the first closing occurrence of
\* tagName at which the depth counter (plus one per opening occurrence, minus
\* one per closing occurrence) is back at zero, and null when there is none.
C19_BalancedClosingTag ==
    call.fn = "findClosingTagLocation" =>
        LET scanPos == IndexOf(call.lines[call.lineIndex + 1], <<"<">> \o call.arg)
        IN  scanPos # -1 =>
               call.out = BalancedClose(call.lines, call.lineIndex, scanPos, call.arg)

\* <ul><li><ul><li>a</li></ul></li></ul> with tagName li: the outer </li>
C19_Witness ==
    /\ call.fn = "findClosingTagLocation"
    /\ call.lines = <<DocDeep>>
    /\ call.arg = <<"l", "i">>
    /\ call.out = [lineIndex |-> 0, index |-> 27]

\* where the first opening occurrence of tagName stands on a line, in any
\* letter case and at a tag-name boundary; -1 when there is none
OpeningAt(line, tagName) ==
    LET P == {i \in 0..(Len(line) - 1) : TagOccurrence(line, i, tagName) = "open"}
    IN  IF P = {} THEN -1 ELSE Min(P)

\* C20: findClosingTagLocation matches the occurrences of tagName without
\* regard to letter case and only at a tag-name boundary: the region that
\* starts at the first such opening occurrence on the start line is located
\* whatever the letter case of the tagName argument, and the result is null
\* only when there is no such region.
C20_CaseInsensitiveBoundary ==
    call.fn = "findClosingTagLocation" =>
        LET at == OpeningAt(call.lines[call.lineIndex + 1], call.arg)
        IN  call.out =
               IF at = -1 THEN [lineIndex |-> -1, index |-> -1]
               ELSE BalancedClose(call.lines, call.lineIndex, at, call.arg)

IsPrefix(a, b) == Len(a) <= Len(b) /\ SubSeq(b, 1, Len(a)) = a

IsSuffix(a, b) == Len(a) <= Len(b) /\ SubSeq(b, Len(b) - Len(a) + 1, Len(b)) = a

\* C15: a successful inline edit keeps everything outside the edited region.
\* Same-line replacement: the number of lines and every other line are as
\* before.  Multiline promotion: the lines before the start line and after
\* the end line are as before and in order, and the text in front of the
\* opening tag on the start line and behind the matching closing tag on the
\* end line is still there, in front of and behind what the region became.
C15_EditKeepsTheRest ==
    [][ \A s \in Sessions :
          (SaveStep /\ resp'.success /\ resp'.session = s) =>
             LET lines  == Split(live)
                 lines2 == Split(live')
                 h2     == history'[s]
                 i      == h2[Len(h2)].lineIndex
                 line   == lines[i + 1]
                 t      == FirstTag(line)
             IN  IF t.close # -1
                 THEN /\ Len(lines2) = Len(lines)
                      /\ \A j \in 1..Len(lines) : j # i + 1 => lines2[j] = lines[j]
                 ELSE LET loc   == BalancedClose(lines, i, t.at, t.name)
                          e     == loc.lineIndex
                          after == Len(lines) - (e + 1)
                          head  == SubSeq(line, 1, t.at)
                          tail  == SubSeq(lines[e + 1], loc.index + Len(t.name) + 4,
                                          Len(lines[e + 1]))
                      IN  /\ e >= i
                          /\ Len(lines2) >= i + 1 + after
                          /\ \A j \in 1..i : lines2[j] = lines[j]
                          /\ \A k \in 0..(after - 1) :
                                 lines2[Len(lines2) - k] = lines[Len(lines) - k]
                          /\ IsPrefix(head, lines2[i + 1])
                          /\ IsSuffix(tail, lines2[Len(lines2) - after])
    ]_vars

\* C18: when POST /save finds the addressed line to open a complex multiline
\* region, the live file and the undo history of the session stay as they
\* are, and the response names the region: a start line that opens a tag not
\* closed on that line, the end line (the line of the balancing closing tag
\* when the document has one), both counted from 1, and the lines from start
\* to end as the original content.
C18_DeferredChangesNothing ==
    [][ (SaveStep /\ resp'.outcome = "isMultiline") =>
           /\ ~resp'.success
           /\ live' = live
           /\ history' = history
           /\ resp'.region # <<>>
           /\ LET r     == resp'.region[1]
                  lines == Split(live)
              IN  /\ r.startLine \in 1..Len(lines)
                  /\ r.endLine \in r.startLine..Len(lines)
                  /\ LET t == FirstTag(lines[r.startLine])
                         e == RegionEnd(lines, r.startLine - 1)
                     IN  /\ t.at # -1 /\ t.close = -1
                         /\ e # -1 => r.endLine = e + 1
                  /\ r.originalContent = Join(SubSeq(lines, r.startLine, r.endLine))
    ]_vars

\* a save has been answered with a region of more than one line
C18_Witness ==
    /\ resp.op = "save" /\ ~resp.success /\ resp.outcome = "isMultiline"
    /\ resp.region # <<>>
    /\ resp.region[1].endLine > resp.region[1].startLine
    /\ live = resp.pre

Contains(s, pat) == IndexOf(s, pat) # -1

\* removeEditorAttributes is called with what injectLineNumbers made of the
\* document
InjectThenRemove ==
    /\ call.fn = "injectLineNumbers" /\ call.arg = live
    /\ call'.fn = "removeEditorAttributes" /\ call'.arg = call.out

\* C21: for every content x that contains no data-line marker,
\* removeEditorAttributes(injectLineNumbers(x)) equals x.
C21_RoundTrip ==
    [][ (InjectThenRemove /\ ~Contains(live, DataLineEq)) => call'.out = live ]_vars

\* C21, amended: for every content x that contains no data-line marker and
\* no contenteditable attribute, removeEditorAttributes(injectLineNumbers(x))
\* equals x.
C21_RoundTripOfCleanContent ==
    [][ ( /\ InjectThenRemove
          /\ ~Contains(live, DataLineEq)
          /\ ~Contains(live, SubSeq(ContentEditableLit, 1, Len(ContentEditableLit) - 1)) )
        => call'.out = live ]_vars

\* a document got a marker and lost it again
C21_Witness ==
    /\ call.fn = "removeEditorAttributes"
    /\ ~Contains(live, DataLineEq)
    /\ ~Contains(live, SubSeq(ContentEditableLit, 1, Len(ContentEditableLit) - 1))
    /\ call.arg = injectLineNumbers(live)
    /\ Contains(call.arg, DataLineLit)
    /\ call.out = live

\* C22: injectLineNumbers is idempotent, injectLineNumbers of its own result
\* is that result, and every line of its argument that carries a marker
\* stands unchanged in its result.
C22_InjectIdempotent ==
    call.fn = "injectLineNumbers" =>
        /\ injectLineNumbers(call.out) = call.out
        /\ LET X == Split(call.arg)
               Y == Split(call.out)
           IN  /\ Len(Y) = Len(X)
               /\ \A n \in 1..Len(X) :
                     Contains(X[n], DataLineEq) => Y[n] = X[n]

\* injectLineNumbers was called with a result of its own that holds a marker
\* it had put there
C22_Witness ==
    /\ call.fn = "injectLineNumbers"
    /\ call.arg = injectLineNumbers(live)
    /\ call.arg # live
    /\ call.out = call.arg

\* the text holds  lit[^"]*"  somewhere, lit being  name="
HasAttr(s, lit) ==
    \E i \in 0..(Len(s) - 1) :
        /\ StartsWithAt(s, i, lit)
        /\ \E k \in (i + Len(lit) + 1)..Len(s) : s[k] = Quote

\* C23: removeEditorAttributes returns, for every string, a string without
\* any data-line="..." and without any contenteditable="..." attribute, and
\* returns that string unchanged when it is called with it.
C23_RemoveIsCompleteAndIdempotent ==
    call.fn = "removeEditorAttributes" =>
        /\ ~HasAttr(call.out, DataLineLit)
        /\ ~HasAttr(call.out, ContentEditableLit)
        /\ removeEditorAttributes(call.out) = call.out

\* C24: injectLineNumbers keeps the number of lines and changes a line only
\* when the line has no marker yet, the name of its first opening tag is not
\* excluded and the character after that name is whitespace, '>' or the end
\* of the line; it then puts  data-line="n", n being the number of the line
\* counted from 1, right behind the tag name, and nothing else changes.
C24_MarksFirstTag ==
    call.fn = "injectLineNumbers" =>
        LET X == Split(call.arg)
            Y == Split(call.out)
        IN  /\ Len(Y) = Len(X)
            /\ \A n \in 1..Len(X) :
                  LET line == X[n]
                      t    == FirstTag(line)
                      e    == t.at + 1 + Len(t.name)
                      qualifies ==
                          /\ ~Contains(line, DataLineEq)
                          /\ t.at # -1
                          /\ LowerStr(t.name) \notin excludedTags
                          /\ \/ e = Len(line)
                             \/ IsSpace(line[e + 1])
                             \/ line[e + 1] = ">"
                  IN  Y[n] = IF qualifies
                             THEN SubSeq(line, 1, e) \o <<" ">> \o DataLineLit
                                      \o NumStr(n) \o <<Quote>>
                                      \o SubSeq(line, e + 1, Len(line))
                             ELSE line

\* C25: whatever content the save routes are sent, the live file holds no
\* data-line and no contenteditable attribute afterwards (the documents hold
\* none to begin with, so any such attribute came in with submitted content).
C25_LiveHasNoEditorAttributes ==
    /\ ~HasAttr(live, DataLineLit)
    /\ ~HasAttr(live, ContentEditableLit)

\* the step is a POST /restore that found its backup file
RestoreStep == ops' = ops + 1 /\ resp'.op = "restore"

\* C26: a POST /restore that gets to the live file has by then written the
\* live content it found as a pre-restore snapshot of its own into the
\* bucket of the current day: after the request that content is in the
\* bucket, in a file that was not there before, and every backup file that
\* was there before still holds what it held.
C26_RestoreBacksUpFirst ==
    [][ RestoreStep =>
          /\ \E x \in bk'[today].snaps :
                /\ x.kind = "pre-restore"
                /\ x.content = live
                /\ x \notin bk[today].snaps
          /\ \A d \in Days :
                /\ bk'[d].first = bk[d].first
                /\ bk'[d].last = bk[d].last
                /\ bk'[d].diffs = bk[d].diffs
                /\ bk[d].snaps \subseteq bk'[d].snaps
      ]_vars

\* a restore has changed the live file and what it overwrote is in the
\* bucket of the day
C26_Witness ==
    /\ resp.op = "restore" /\ resp.success
    /\ live # resp.pre
    /\ \E x \in bk[today].snaps : x.kind = "pre-restore" /\ x.content = resp.pre

\* C27: after a successful POST /restore the live file is the content of the
\* snapshot file named, or, for a diff record with sequence number k, the
\* base snapshot of that bucket with the diffs 1..k replayed; a restore that
\* finds no base snapshot for a diff record fails and leaves the live file
\* as it is.
C27_RestoreYieldsTarget ==
    [][ RestoreStep =>
          LET t == resp'.target[1]
              b == bk'[t.day]
              f == t.file
          IN  /\ f \in BackupFiles(bk[t.day])
              /\ (f.type = "diff" /\ b.first = <<>>) =>
                    ~resp'.success /\ live' = live
              /\ (f.type = "diff" /\ b.first # <<>>) =>
                    resp'.success /\ live' = ReplayUpTo(b.first[1], b.diffs, f.num)
              /\ f.type = "first" => resp'.success /\ live' = bk[t.day].first[1]
              /\ f.type = "last" => resp'.success /\ live' = bk[t.day].last[1]
              /\ f.type = "snap" =>
                    /\ resp'.success
                    /\ \E x \in bk[t.day].snaps :
                          x.ts = f.ts /\ x.kind = f.kind /\ live' = x.content
      ]_vars

\* C28: a POST /save whose write of the live file fails leaves the live file
\* as it was and leaves no diff record for the edit in the bucket of the day.
C28_NoDiffWithoutFileWrite ==
    [][ (ops' = ops + 1 /\ resp'.op = "save" /\ resp'.outcome = "writeError") =>
          /\ live' = live
          /\ bk'[today].diffs = bk[today].diffs
      ]_vars

\* the bucket holds the backup record that the save with timestamp ts wrote
HasRecordOf(b, ts, kind) ==
    CASE kind = "diff"     -> \E n \in DOMAIN b.diffs : b.diffs[n].timestamp = ts
      [] kind = "snapshot" -> \E x \in b.snaps : x.ts = ts /\ x.kind = "auto-snapshot"
      [] kind = "first"    -> b.first # <<>>
      [] OTHER             -> FALSE

C30_InvalidLineRejected ==
    [][ \A s \in Sessions :
          (resp' # resp /\ resp'.session = s /\ loggedIn[s] /\ resp'.req # <<>>) =>
             LET n == Len(Split(live))
                 q == resp'.req
                 outside ==
                     IF resp'.op = "save" THEN q[1] < 1 \/ q[1] > n
                     ELSE q[1] < 1 \/ q[2] > n \/ q[1] > q[2]
             IN  outside =>
                    /\ ~resp'.success
                    /\ resp'.outcome = "invalidLine"
                    /\ live' = live /\ bk' = bk /\ history' = history
      ]_vars

\* C31: getBackupFolderName gives two different file paths two different
\* folder names: no other path has the folder of the path it was called
\* with.
C31_FolderNamesDistinct ==
    call.fn = "getBackupFolderName" =>
        \A g \in FileNames :
            g # call.arg => getBackupFolderName(g) # call.out

\* C32: a POST /save that finds the chain of the day replaying to the live
\* file and replaces text within one line writes one diff record, with the
\* line number of the request, the line as it was for before and the line
\* as it became for after, and the chain replays to the live file again
\* after the save.
C32_DiffKeepsChainConsistent ==
    [][ ( /\ SaveStep /\ resp'.success /\ resp'.outcome = "replaced"
          /\ reconstructContent(bk[today], Infinity) = <<live>> ) =>
          LET n     == resp'.req[1]
              lines == Split(live)
              old   == bk[today].diffs
              new   == bk'[today].diffs
              added == {k \in DOMAIN new : k \notin DOMAIN old \/ new[k] # old[k]}
          IN  /\ Cardinality(added) = 1
              /\ \A k \in added :
                    /\ new[k].lineNumber = n
                    /\ new[k].before = lines[n]
                    /\ Join([lines EXCEPT ![n] = new[k].after]) = live'
              /\ reconstructContent(bk'[today], Infinity) = <<live'>>
      ]_vars

\* C33: replaceSingleLine replaces within the line exactly when
\* findClosingTagLocation finds the closing tag that balances the first
\* opening tag of the line on that same line, and it then keeps the line
\* from that closing tag on (and up to the '>' of the opening tag), also
\* when tags of the same name are nested on the line.
C33_ReplaceAgreesWithLocator ==
    call.fn = "replaceSingleLine" =>
        LET lines    == call.lines
            i        == call.lineIndex
            line     == lines[i + 1]
            tagMatch == TagMatch(line)
        IN  (tagMatch.index # -1 /\ IndexOf(line, <<">">>) # -1) =>
               LET loc  == findClosingTagLocation(lines, i, tagMatch.name)
                   gt   == IndexOfFrom(line, <<">">>, tagMatch.index)
                   sameLine ==
                       /\ call.out.originalLine # <<>>
                       /\ Len(call.out.lines) = Len(lines)
               IN  /\ sameLine <=> (loc.lineIndex = i)
                   /\ sameLine =>
                         call.out.lines[i + 1] =
                             Substring(line, 0, gt + 1) \o call.arg
                                 \o SubstringFrom(line, loc.index)

\* the text holds a tag other than a line break: a '<' with a '>' behind it
\* that does not open <br
OtherMarkup(s) ==
    \E j \in 1..Len(s) :
        /\ s[j] = "<"
        /\ \E k \in (j + 1)..Len(s) : s[k] = ">"
        /\ ~(j + 2 <= Len(s) /\ LowerStr(SubSeq(s, j + 1, j + 2)) = <<"b", "r">>)

\* C34: a region whose closing tag is not on its start line is collapsed
\* into one line exactly when its tag is li or td, a closing tag balances
\* its opening tag, and the text between the '>' of the opening tag and that
\* closing tag holds no tag other than <br>; every other such region gets
\* the deferred result and the lines stay as they are.
C34_PromotesTextOnlyItems ==
    call.fn = "replaceSingleLine" =>
        LET lines == call.lines
            i     == call.lineIndex
            t     == FirstTag(lines[i + 1])
        IN  (t.at # -1 /\ t.gt # -1 /\ t.close = -1) =>
               LET loc   == BalancedClose(lines, i, t.at, t.name)
                   text  == Join(SubSeq(lines, i + 1, Len(lines)))
                   upTo  == IF loc.lineIndex = i THEN loc.index
                            ELSE Len(Join(SubSeq(lines, i + 1, loc.lineIndex)))
                                     + 1 + loc.index
                   inner == SubSeq(text, t.gt + 2, upTo)
                   should ==
                       /\ LowerStr(t.name) \in { <<"l", "i">>, <<"t", "d">> }
                       /\ loc.lineIndex # -1
                       /\ ~OtherMarkup(inner)
                   promoted == call.out.originalLine # <<>>
               IN  /\ promoted <=> should
                   /\ ~promoted => call.out.lines = lines /\ call.out.isMultiline

\* C35: k <= 20 successful edits of one session (same-line POST /save and
\* POST /save-multiline in any mix) followed by k POST /undo calls leave the
\* live file identical to the original document and the undo stack empty.
\* In SpecEditUndo no edit follows an undo, so a stack that an undo has just
\* emptied has seen as many undos as edits.
C35_UndoingAllEditsRestoresOriginal ==
    \A s \in Sessions :
        (resp.op = "undo" /\ resp.success /\ resp.session = s /\ history[s] = <<>>)
            => live = DocList


\* C36: no request of a session that is not logged in changes the live file
\* or the backup store, POST /undo included, because a session holds undo
\* history only while it is logged in.
C36_LoggedOutChangesNothing ==
    [][ /\ \A s \in Sessions : history'[s] # <<>> => loggedIn'[s]
        /\ (live' # live \/ bk' # bk) =>
              (resp'.session \in Sessions /\ loggedIn[resp'.session]) ]_vars

\* a session that edited the file and logged out has its POST /undo refused
C36_Witness ==
    \E s \in Sessions :
        /\ ~loggedIn[s]
        /\ live \notin InitDocs
        /\ resp.op = "undo" /\ resp.session = s
        /\ ~resp.success /\ resp.outcome = "noHistory"


\* what the files of a day folder hold, and what reconstructContent makes
\* of them
DayFolderContents(b) ==
    (IF b.first = <<>> THEN {} ELSE {b.first[1]})
    \cup (IF b.last = <<>> THEN {} ELSE {b.last[1]})
    \cup { x.content : x \in b.snaps }
    \cup (IF b.first = <<>> THEN {}
          ELSE { reconstructContent(b, k)[1] : k \in 0..Cardinality(DOMAIN b.diffs) })

\* C37: whatever backupFile is, '..' segments included, a POST /restore
\* writes into the live file only content read or reconstructed from the
\* files of the backup folder of that file.
C37_RestoreReadsOwnFolderOnly ==
    [][ (RestoreStep /\ resp'.success) =>
            live' \in UNION { DayFolderContents(bk[d]) : d \in Days } ]_vars


\* C38: a POST /save that is rejected with success:false, because the line
\* has no editable tag or because the element is a deferred multiline one,
\* writes nothing to the backup store.
C38_RejectedSaveWritesNoBackup ==
    [][ (/\ resp'.op = "save"
         /\ resp' # resp
         /\ ~resp'.success
         /\ resp'.outcome \in {"notEditable", "isMultiline"}) => bk' = bk ]_vars


\* the step is a POST /login
LoginStep == ops' = ops + 1 /\ resp'.op = "login"

\* C39: the fifth wrong password of an IP, every failure within 60 seconds
\* of the first of the counting window, blocks the IP for one hour from that
\* failure, and nothing else blocks it; while the block is in force every
\* POST /login of the IP is rejected and sets no loggedIn, the right password
\* included; with no block in force the right password logs in and clears
\* the failure record of the IP.
C39_LoginLockout ==
    [][ LoginStep =>
          LET ip  == resp'.target[1]
              s   == resp'.session
              t   == now'
              d   == loginAttempts[ip]
              d2  == loginAttempts'[ip]
              blocked == d # <<>> /\ d[1].blockedUntil # <<>>
                           /\ d[1].blockedUntil[1] > t
              counting == d # <<>> /\ d[1].blockedUntil = <<>>
                            /\ t - d[1].firstAttempt <= Window
              fifth == counting /\ d[1].count = MaxFailures - 1
          IN  /\ blocked =>
                    ~resp'.success /\ loggedIn' = loggedIn /\ d2 = d
              /\ (~blocked /\ resp'.req[1] = RightPassword) =>
                    resp'.success /\ loggedIn'[s] /\ d2 = <<>>
              /\ (~blocked /\ resp'.req[1] # RightPassword) =>
                    /\ ~resp'.success /\ loggedIn' = loggedIn
                    /\ d2 # <<>>
                    /\ d2[1].count = (IF counting THEN d[1].count + 1 ELSE 1)
                    /\ d2[1].firstAttempt = (IF counting THEN d[1].firstAttempt ELSE t)
                    /\ d2[1].blockedUntil =
                          (IF fifth THEN <<t + BlockTime>> ELSE <<>>)
      ]_vars

\* a blocked IP has sent the right password and has been turned away
C39_Witness ==
    /\ resp.op = "login" /\ ~resp.success
    /\ resp.req = <<RightPassword>>
    /\ \E ip \in IPs :
          /\ resp.target = <<ip>>
          /\ loginAttempts[ip] # <<>>
          /\ loginAttempts[ip][1].count = MaxFailures
          /\ loginAttempts[ip][1].blockedUntil # <<>>
          /\ loginAttempts[ip][1].blockedUntil[1] > now
    /\ \A s \in Sessions : ~loggedIn[s]


====
